---- MODULE Spec2Model ----
(***************************************************************************)
(* A model of the Knowledge Retrieval Engine of 7TIN/centro:               *)
(* src/src/services/vector_store.py, class VectorStoreService.             *)
(*                                                                         *)
(* State: the remote vector index (the backend's entries), the engine's    *)
(* two local caches (_source_vector_ids, _keyword_cache), the uuid supply, *)
(* the backend's delete capability, and the record of the outstanding      *)
(* public call: its arguments, the store it found, the external calls it   *)
(* issued and what it returned (for a search also what the backend         *)
(* answered and the call it followed).                                     *)
(*                                                                         *)
(* Texts are sequences of one-character strings, so that lower(), split(), *)
(* strip() and the substring test `token in text` are computed as Python   *)
(* computes them.  Scores are exact fractions [n, d].                      *)
(***************************************************************************)
EXTENDS Integers, Sequences, FiniteSets, TLC

VARIABLES index, source_vector_ids, keyword_cache, next_id, filter_delete, last,
          boot, llm, chat, threads

\* The engine under a sequential caller.
engineVars == <<index, source_vector_ids, keyword_cache, next_id, filter_delete, last>>

\* The other components: the construction of the service (boot), the LLM call
\* wrapper (llm), the chat endpoint (chat) and the concurrent callers (threads).
\* A specification that does not run a component leaves its variable parked.
vars == <<index, source_vector_ids, keyword_cache, next_id, filter_delete, last,
          boot, llm, chat, threads>>

Parked == [state |-> "parked"]

(***************************************************************************)
(* Bounds of the model.                                                    *)
(***************************************************************************)
\* The number of chunk ids (uuid4 values) the model hands out in one run.
MaxChunks == 2
\* retrieval_chunk_size, scaled down to the model's tiny documents.
ChunkSize == 2

(***************************************************************************)
(* Input pools.                                                            *)
(***************************************************************************)
Persons == {"p1", "p2"}
Sources == {"s1", "s2"}

dEmpty == << >>
dBlank == <<" ">>
dB == <<"b">>
dAb == <<"A", "b">>
dBAb == <<"b", " ", "A", "b">>

\* The document lists handed to upsert_documents / replace_source_documents:
\* no document, only blank documents, one chunk ("b" or "Ab"), two chunks
\* ("b" and "Ab") cut from one document or from two.
DocLists == { << >>, <<dEmpty, dBlank>>, <<dBlank, dB>>, <<dAb>>, <<dBAb>>, <<dB, dAb>> }

\* The queries handed to search: no token, one token, two tokens.
Queries == { <<" ">>, <<"A">>, <<"b">>, <<"b", " ", "A">> }

\* extra_metadata values: None, and a dict with a free key ("suite") and every
\* reserved key.
eNone == [k \in {} |-> ""]
eReserved == [suite |-> "e2e", person_id |-> "p1", source |-> "s2", chunk_index |-> 0,
              text |-> <<"z">>, created_at |-> "never"]
Extras == {eNone, eReserved}

ReservedKeys == {"person_id", "source", "chunk_index", "text", "created_at"}

TopKs == {1, 2}

\* Scores are fractions; the backend's similarity and min_score are drawn from these.
Frac(n, d) == [n |-> n, d |-> d]
BackendScores == {Frac(1, 2), Frac(1, 1)}
MinScores == {Frac(0, 1), Frac(1, 1)}

\* datetime.now(timezone.utc).isoformat(): one abstract reading of the clock.
Timestamp == "now"

(***************************************************************************)
(* Python string operations on character sequences.                        *)
(***************************************************************************)
LowerChar(c) == IF c = "A" THEN "a" ELSE c

Lower(s) == [i \in 1..Len(s) |-> LowerChar(s[i])]

IsSpace(c) == c = " "

RECURSIVE LStrip(_)
LStrip(s) == IF s = << >> THEN << >>
             ELSE IF IsSpace(Head(s)) THEN LStrip(Tail(s)) ELSE s

RECURSIVE RStrip(_)
RStrip(s) == IF s = << >> THEN << >>
             ELSE IF IsSpace(s[Len(s)]) THEN RStrip(SubSeq(s, 1, Len(s) - 1)) ELSE s

\* str.strip()
Strip(s) == RStrip(LStrip(s))

\* str.split(): the maximal runs of non-space characters, in order.
RECURSIVE SplitFrom(_, _, _)
SplitFrom(s, cur, acc) ==
    IF s = << >> THEN (IF cur = << >> THEN acc ELSE Append(acc, cur))
    ELSE IF IsSpace(Head(s))
         THEN SplitFrom(Tail(s), << >>, IF cur = << >> THEN acc ELSE Append(acc, cur))
         ELSE SplitFrom(Tail(s), Append(cur, Head(s)), acc)

Split(s) == SplitFrom(s, << >>, << >>)

\* `t in s` for strings: t occurs in s as a contiguous substring.
Contains(t, s) == \E i \in 0..(Len(s) - Len(t)) : SubSeq(s, i + 1, i + Len(t)) = t

Range(f) == { f[i] : i \in DOMAIN f }

(***************************************************************************)
(* Fractions.                                                              *)
(***************************************************************************)
RECURSIVE Gcd(_, _)
Gcd(a, b) == IF b = 0 THEN a ELSE Gcd(b, a % b)

\* overlap / len(tokens) as a float: the fraction in lowest terms.
Div(n, d) == LET g == Gcd(n, d) IN Frac(n \div g, d \div g)

FLess(a, b) == a.n * b.d < b.n * a.d
FLeq(a, b) == a.n * b.d <= b.n * a.d

(***************************************************************************)
(* Sequence helpers.                                                       *)
(***************************************************************************)
Min(a, b) == IF a <= b THEN a ELSE b
Max(a, b) == IF a >= b THEN a ELSE b

\* seq[:k]
Take(seq, k) == SubSeq(seq, 1, Min(k, Len(seq)))

\* list.sort(key=score, reverse=True): stable, so equal scores keep their order.
RECURSIVE InsertDesc(_, _)
InsertDesc(sorted, x) ==
    IF sorted = << >> THEN <<x>>
    ELSE IF FLess(Head(sorted).score, x.score) THEN <<x>> \o sorted
    ELSE <<Head(sorted)>> \o InsertDesc(Tail(sorted), x)

RECURSIVE SortFrom(_, _)
SortFrom(seq, acc) ==
    IF seq = << >> THEN acc ELSE SortFrom(Tail(seq), InsertDesc(acc, Head(seq)))

\* A sort that leaves the list as it is.
SortDesc_unsorted(seq) == seq

SortDesc(seq) == SortFrom(seq, << >>)

(***************************************************************************)
(* Chunker: RecursiveCharacterTextSplitter(chunk_size, chunk_overlap) on   *)
(* space-separated text: words are packed greedily, joined by one space,   *)
(* while the chunk stays within ChunkSize.  (The model's windows do not    *)
(* overlap; a word longer than ChunkSize stays whole.)                     *)
(***************************************************************************)
RECURSIVE PackWords(_, _, _)
PackWords(words, cur, acc) ==
    IF words = << >> THEN (IF cur = << >> THEN acc ELSE Append(acc, cur))
    ELSE LET w == Head(words) IN
         IF cur = << >> THEN PackWords(Tail(words), w, acc)
         ELSE IF Len(cur) + 1 + Len(w) <= ChunkSize
              THEN PackWords(Tail(words), cur \o <<" ">> \o w, acc)
              ELSE PackWords(Tail(words), w, Append(acc, cur))

split_text(document) == PackWords(Split(document), << >>, << >>)

\* One document's contribution to _split_documents.
DocumentChunks(document) ==
    IF document = << >> \/ Strip(document) = << >> THEN << >>
    ELSE LET pieces == split_text(document)
             kept == SelectSeq(pieces, LAMBDA c : c # << >> /\ Strip(c) # << >>)
         IN  [i \in 1..Len(kept) |-> Strip(kept[i])]

RECURSIVE _split_documents(_)
_split_documents(documents) ==
    IF documents = << >> THEN << >>
    ELSE DocumentChunks(Head(documents)) \o _split_documents(Tail(documents))

(***************************************************************************)
(* upsert_documents.  A store is the record [index, svi, kc, next_id] of   *)
(* the backend index, _source_vector_ids, _keyword_cache and the uuid      *)
(* supply; every operation maps a store to its outcome.                    *)
(***************************************************************************)
\* {"person_id":..., "source":..., "chunk_index":..., "text":..., "created_at":...,
\*  **metadata}: in a dict display a later key replaces an earlier one.
ChunkMetadata(person_id, source, chunk_index, chunk, extra_metadata) ==
    LET base == [person_id |-> person_id, source |-> source,
                 chunk_index |-> chunk_index, text |-> chunk,
                 created_at |-> Timestamp]
    IN  [k \in (DOMAIN base) \cup (DOMAIN extra_metadata) |->
            IF k \in DOMAIN extra_metadata THEN extra_metadata[k] ELSE base[k]]

\* str(uuid4()): the n-th identifier handed out.  It carries, as a ghost that no
\* operation reads, the person_id and source arguments of the call that made it
\* and the chunk text that call cut.
Uuid(n, person_id, source, chunk) ==
    [n |-> n, person_id |-> person_id, source |-> source, chunk |-> chunk]

\* The payload list: enumerate(zip(chunks, vectors), start=1), a fresh uuid each.
Payload(chunks, person_id, source, extra_metadata, first_id) ==
    [i \in 1..Len(chunks) |->
        [id |-> Uuid(first_id + i - 1, person_id, source, chunks[i]),
         metadata |-> ChunkMetadata(person_id, source, i, chunks[i], extra_metadata)]]

\* The cache entry recorded for one payload item.
CacheEntry(item) ==
    [id |-> item.id, source |-> item.metadata.source,
     text |-> item.metadata.text, metadata |-> item.metadata]

\* upsert_documents without the early return on an empty chunk list.
upsert_documents_no_early_return(st, person_id, documents, source, extra_metadata) ==
    LET chunks == _split_documents(documents)
        payload == Payload(chunks, person_id, source, extra_metadata, st.next_id)
        new_ids == { payload[i].id : i \in DOMAIN payload }
        key == <<person_id, source>>
        old_ids == IF key \in DOMAIN st.svi THEN st.svi[key] ELSE {}
        old_entries == IF person_id \in DOMAIN st.kc THEN st.kc[person_id] ELSE << >>
        added == [i \in DOMAIN payload |-> CacheEntry(payload[i])]
    IN  [st |-> [index |-> st.index \cup Range(payload),
                 svi |-> [k \in (DOMAIN st.svi) \cup {key} |->
                             IF k = key THEN old_ids \cup new_ids ELSE st.svi[k]],
                 kc |-> [p \in (DOMAIN st.kc) \cup {person_id} |->
                             IF p = person_id THEN old_entries \o added ELSE st.kc[p]],
                 next_id |-> st.next_id + Len(payload)],
         ret |-> Len(payload),
         calls |-> <<"embed", "index.upsert">>,
         ids |-> new_ids]

\* upsert_documents that forgets to mirror the chunks into _keyword_cache.
upsert_documents_no_cache(st, person_id, documents, source, extra_metadata) ==
    LET chunks == _split_documents(documents) IN
    IF chunks = << >>
    THEN [st |-> st, ret |-> 0, calls |-> << >>, ids |-> {}]
    ELSE LET payload == Payload(chunks, person_id, source, extra_metadata, st.next_id)
             new_ids == { payload[i].id : i \in DOMAIN payload }
             key == <<person_id, source>>
             old_ids == IF key \in DOMAIN st.svi THEN st.svi[key] ELSE {}
         IN  [st |-> [index |-> st.index \cup Range(payload),
                      svi |-> [k \in (DOMAIN st.svi) \cup {key} |->
                                  IF k = key THEN old_ids \cup new_ids ELSE st.svi[k]],
                      kc |-> st.kc,
                      next_id |-> st.next_id + Len(payload)],
              ret |-> Len(payload),
              calls |-> <<"embed", "index.upsert">>,
              ids |-> new_ids]

upsert_documents(st, person_id, documents, source, extra_metadata) ==
    LET chunks == _split_documents(documents) IN
    IF chunks = << >>
    THEN [st |-> st, ret |-> 0, calls |-> << >>, ids |-> {}]
    ELSE LET payload == Payload(chunks, person_id, source, extra_metadata, st.next_id)
             new_ids == { payload[i].id : i \in DOMAIN payload }
             key == <<person_id, source>>
             old_ids == IF key \in DOMAIN st.svi THEN st.svi[key] ELSE {}
             old_entries == IF person_id \in DOMAIN st.kc THEN st.kc[person_id] ELSE << >>
             added == [i \in DOMAIN payload |-> CacheEntry(payload[i])]
         IN  [st |-> [index |-> st.index \cup Range(payload),
                      svi |-> [k \in (DOMAIN st.svi) \cup {key} |->
                                  IF k = key THEN old_ids \cup new_ids ELSE st.svi[k]],
                      kc |-> [p \in (DOMAIN st.kc) \cup {person_id} |->
                                  IF p = person_id THEN old_entries \o added ELSE st.kc[p]],
                      next_id |-> st.next_id + Len(payload)],
              ret |-> Len(payload),
              calls |-> <<"embed", "index.upsert">>,
              ids |-> new_ids]

(***************************************************************************)
(* delete_by_source.  supports_filter says whether the backend's delete    *)
(* accepts a metadata filter; when it does not, it raises TypeError and    *)
(* changes nothing.                                                        *)
(***************************************************************************)
\* delete_by_source that deletes from the index and forgets _keyword_cache.
delete_by_source_keeps_cache(st, person_id, source, supports_filter) ==
    LET key == <<person_id, source>>
        existing_ids == IF key \in DOMAIN st.svi THEN st.svi[key] ELSE {}
        index1 == IF supports_filter
                  THEN { e \in st.index :
                           ~(e.metadata.person_id = person_id /\ e.metadata.source = source) }
                  ELSE { e \in st.index : e.id \notin existing_ids }
    IN  [st |-> [index |-> index1,
                 svi |-> [k \in (DOMAIN st.svi) \ {key} |-> st.svi[k]],
                 kc |-> st.kc, next_id |-> st.next_id],
         ret |-> Cardinality(existing_ids),
         calls |-> IF supports_filter \/ existing_ids = {}
                   THEN <<"index.delete(filter)">>
                   ELSE <<"index.delete(filter)", "index.delete(ids)">>,
         sent_ids |-> IF supports_filter THEN {} ELSE existing_ids]

\* delete_by_source that leaves the group's entry in _source_vector_ids.
delete_by_source_keeps_ids(st, person_id, source, supports_filter) ==
    LET key == <<person_id, source>>
        existing_ids == IF key \in DOMAIN st.svi THEN st.svi[key] ELSE {}
        in_cache == person_id \in DOMAIN st.kc
        kept == IF in_cache
                THEN SelectSeq(st.kc[person_id], LAMBDA item : item.source # source)
                ELSE << >>
    IN  [st |-> [index |-> IF supports_filter
                           THEN { e \in st.index :
                                    ~(e.metadata.person_id = person_id
                                        /\ e.metadata.source = source) }
                           ELSE { e \in st.index : e.id \notin existing_ids },
                 svi |-> st.svi,
                 kc |-> IF in_cache
                        THEN [p \in DOMAIN st.kc |-> IF p = person_id THEN kept ELSE st.kc[p]]
                        ELSE st.kc,
                 next_id |-> st.next_id],
         ret |-> IF in_cache
                 THEN Max(Cardinality(existing_ids), Len(st.kc[person_id]) - Len(kept))
                 ELSE Cardinality(existing_ids),
         calls |-> IF supports_filter \/ existing_ids = {}
                   THEN <<"index.delete(filter)">>
                   ELSE <<"index.delete(filter)", "index.delete(ids)">>,
         sent_ids |-> IF supports_filter THEN {} ELSE existing_ids]

\* delete_by_source whose except branch sends every tracked id of the person,
\* of whatever source.
delete_by_source_person_ids(st, person_id, source, supports_filter) ==
    LET key == <<person_id, source>>
        existing_ids == IF key \in DOMAIN st.svi THEN st.svi[key] ELSE {}
        person_ids == UNION { st.svi[k] : k \in { x \in DOMAIN st.svi : x[1] = person_id } }
        in_cache == person_id \in DOMAIN st.kc
        kept == IF in_cache
                THEN SelectSeq(st.kc[person_id], LAMBDA item : item.source # source)
                ELSE << >>
    IN  [st |-> [index |-> IF supports_filter
                           THEN { e \in st.index :
                                    ~(e.metadata.person_id = person_id
                                        /\ e.metadata.source = source) }
                           ELSE { e \in st.index : e.id \notin person_ids },
                 svi |-> [k \in (DOMAIN st.svi) \ {key} |-> st.svi[k]],
                 kc |-> IF in_cache
                        THEN [p \in DOMAIN st.kc |-> IF p = person_id THEN kept ELSE st.kc[p]]
                        ELSE st.kc,
                 next_id |-> st.next_id],
         ret |-> IF in_cache
                 THEN Max(Cardinality(existing_ids), Len(st.kc[person_id]) - Len(kept))
                 ELSE Cardinality(existing_ids),
         calls |-> IF supports_filter \/ person_ids = {}
                   THEN <<"index.delete(filter)">>
                   ELSE <<"index.delete(filter)", "index.delete(ids)">>,
         sent_ids |-> IF supports_filter THEN {} ELSE person_ids]

delete_by_source(st, person_id, source, supports_filter) ==
    LET key == <<person_id, source>>
        existing_ids == IF key \in DOMAIN st.svi THEN st.svi[key] ELSE {}
        index1 == IF supports_filter
                  THEN { e \in st.index :
                           ~(e.metadata.person_id = person_id /\ e.metadata.source = source) }
                  ELSE { e \in st.index : e.id \notin existing_ids }
        calls == IF supports_filter THEN <<"index.delete(filter)">>
                 ELSE IF existing_ids # {}
                      THEN <<"index.delete(filter)", "index.delete(ids)">>
                      ELSE <<"index.delete(filter)">>
        svi1 == [k \in (DOMAIN st.svi) \ {key} |-> st.svi[k]]
        in_cache == person_id \in DOMAIN st.kc
        kept == IF in_cache
                THEN SelectSeq(st.kc[person_id], LAMBDA item : item.source # source)
                ELSE << >>
        kc1 == IF in_cache
               THEN [p \in DOMAIN st.kc |-> IF p = person_id THEN kept ELSE st.kc[p]]
               ELSE st.kc
        deleted_count == IF in_cache
                         THEN Max(Cardinality(existing_ids),
                                  Len(st.kc[person_id]) - Len(kept))
                         ELSE Cardinality(existing_ids)
    IN  [st |-> [index |-> index1, svi |-> svi1, kc |-> kc1, next_id |-> st.next_id],
         ret |-> deleted_count,
         calls |-> calls,
         sent_ids |-> IF supports_filter THEN {} ELSE existing_ids]

(***************************************************************************)
(* replace_source_documents: delete_by_source, then upsert_documents.      *)
(***************************************************************************)
replace_source_documents(st, person_id, source, documents, extra_metadata, supports_filter) ==
    LET deleted == delete_by_source(st, person_id, source, supports_filter)
        indexed == upsert_documents(deleted.st, person_id, documents, source, extra_metadata)
    IN  [st |-> indexed.st,
         ret |-> <<deleted.ret, indexed.ret>>,
         calls |-> deleted.calls \o indexed.calls,
         ids |-> indexed.ids,
         mid |-> deleted.st]

(***************************************************************************)
(* _keyword_search: lexical retrieval over the person's cached chunks.     *)
(***************************************************************************)
\* {token for token in query.lower().split() if token}
Tokens(query) == Range(Split(Lower(query)))

\* sum(1 for token in tokens if token in text), text lowercased
Overlap(tokens, text) == Cardinality({ t \in tokens : Contains(t, Lower(text)) })

KeywordResult(entry) ==
    [id |-> entry.item.id, score |-> entry.score, text |-> entry.item.text,
     source |-> entry.item.source, metadata |-> entry.item.metadata,
     retrieval_mode |-> "keyword_fallback"]

\* _keyword_search that takes the first top_k hits in cache order, unsorted.
_keyword_search_first_k(kc, person_id, query, top_k) ==
    LET tokens == Tokens(query) IN
    IF tokens = {} THEN << >>
    ELSE LET entries == IF person_id \in DOMAIN kc THEN kc[person_id] ELSE << >>
             hits == SelectSeq(entries,
                        LAMBDA item : Lower(item.text) # << >> /\ Overlap(tokens, item.text) > 0)
             scored == [i \in 1..Len(hits) |->
                          [score |-> Div(Overlap(tokens, hits[i].text), Cardinality(tokens)),
                           item |-> hits[i]]]
             top == Take(scored, top_k)
         IN  [i \in 1..Len(top) |-> KeywordResult(top[i])]

_keyword_search(kc, person_id, query, top_k) ==
    LET tokens == Tokens(query) IN
    IF tokens = {} THEN << >>
    ELSE LET entries == IF person_id \in DOMAIN kc THEN kc[person_id] ELSE << >>
             hits == SelectSeq(entries,
                        LAMBDA item : Lower(item.text) # << >> /\ Overlap(tokens, item.text) > 0)
             scored == [i \in 1..Len(hits) |->
                          [score |-> Div(Overlap(tokens, hits[i].text), Cardinality(tokens)),
                           item |-> hits[i]]]
             top == Take(SortDesc(scored), top_k)
         IN  [i \in 1..Len(top) |-> KeywordResult(top[i])]

(***************************************************************************)
(* search.  response is what index.query answered: a list of matches       *)
(* [id, score, metadata].                                                  *)
(***************************************************************************)
VectorResult(match) ==
    [id |-> match.id, score |-> match.score, text |-> match.metadata.text,
     source |-> match.metadata.source, metadata |-> match.metadata,
     retrieval_mode |-> "vector"]

\* The loop over the matches: those below min_score are skipped.
Qualifying(response, min_score) ==
    LET kept == SelectSeq(response, LAMBDA m : ~FLess(m.score, min_score))
    IN  [i \in 1..Len(kept) |-> VectorResult(kept[i])]

\* search that tops a short vector result up with keyword matches.
search_merging(kc, person_id, query, top_k, min_score, enable_hybrid_fallback, response) ==
    LET results == SortDesc(Qualifying(response, min_score)) IN
    IF Len(results) >= top_k \/ ~enable_hybrid_fallback
    THEN [ret |-> Take(results, top_k), calls |-> <<"embed", "index.query">>]
    ELSE [ret |-> Take(results \o _keyword_search(kc, person_id, query, top_k), top_k),
          calls |-> <<"embed", "index.query", "_keyword_search">>]

\* search that applies min_score to the keyword fallback's matches too.
search_threshold_on_fallback(kc, person_id, query, top_k, min_score, enable_hybrid_fallback, response) ==
    LET results == Qualifying(response, min_score) IN
    IF results # << >>
    THEN [ret |-> Take(SortDesc(results), top_k), calls |-> <<"embed", "index.query">>]
    ELSE IF enable_hybrid_fallback
    THEN [ret |-> SelectSeq(_keyword_search(kc, person_id, query, top_k),
                            LAMBDA r : ~FLess(r.score, min_score)),
          calls |-> <<"embed", "index.query", "_keyword_search">>]
    ELSE [ret |-> << >>, calls |-> <<"embed", "index.query">>]

search(kc, person_id, query, top_k, min_score, enable_hybrid_fallback, response) ==
    LET results == Qualifying(response, min_score) IN
    IF results # << >>
    THEN [ret |-> Take(SortDesc(results), top_k), calls |-> <<"embed", "index.query">>]
    ELSE IF enable_hybrid_fallback
    THEN [ret |-> _keyword_search(kc, person_id, query, top_k),
          calls |-> <<"embed", "index.query", "_keyword_search">>]
    ELSE [ret |-> << >>, calls |-> <<"embed", "index.query">>]

(***************************************************************************)
(* The backend's query: up to top_k entries whose stored metadata matches  *)
(* the filter {"person_id": {"$eq": person_id}}, each with a similarity    *)
(* score.  Which entries, their scores and their order are the backend's   *)
(* choice (it ranks by embedding similarity and is eventually consistent). *)
(***************************************************************************)
FilterMatches(idx, person_id) ==
    { [id |-> e.id, score |-> sc, metadata |-> e.metadata] :
        e \in { x \in idx : x.metadata.person_id = person_id }, sc \in BackendScores }

QueryResponses(idx, person_id, top_k) ==
    { r \in UNION { [1..k -> FilterMatches(idx, person_id)] : k \in 0..top_k } :
        \A i, j \in DOMAIN r : i # j => r[i].id # r[j].id }

(***************************************************************************)
(* The state machine.                                                      *)
(***************************************************************************)
Store == [index |-> index, svi |-> source_vector_ids, kc |-> keyword_cache,
          next_id |-> next_id]

SetStore(st) ==
    /\ index' = st.index
    /\ source_vector_ids' = st.svi
    /\ keyword_cache' = st.kc
    /\ next_id' = st.next_id

\* __init__ against a fresh index: both caches empty.  The backend either
\* supports delete-by-filter or raises TypeError on it.
Init ==
    /\ index = {}
    /\ source_vector_ids = [k \in {} |-> {}]
    /\ keyword_cache = [p \in {} |-> << >>]
    /\ next_id = 1
    /\ filter_delete \in BOOLEAN
    /\ last = [op |-> "idle"]
    /\ boot = Parked
    /\ llm = Parked
    /\ chat = Parked
    /\ threads = Parked

\* A sequential caller: every call leaves its record in `last` until the caller
\* takes the result (Return); a new call is issued when none is outstanding.
Idle == last.op = "idle"

UpsertCall(person_id, source, documents, extra_metadata) ==
    LET out == upsert_documents(Store, person_id, documents, source, extra_metadata) IN
    /\ Idle
    /\ out.st.next_id <= MaxChunks + 1
    /\ SetStore(out.st)
    /\ last' = [op |-> "upsert", person_id |-> person_id, source |-> source,
                documents |-> documents, extra_metadata |-> extra_metadata,
                before |-> Store, ret |-> out.ret, calls |-> out.calls, ids |-> out.ids]
    /\ UNCHANGED <<filter_delete, boot, llm, chat, threads>>

Upsert ==
    \E person_id \in Persons, source \in Sources, documents \in DocLists,
       extra_metadata \in Extras :
        UpsertCall(person_id, source, documents, extra_metadata)

\* `after` is the record of the delete this one repeats at once, or `last` when idle.
DeleteCall(person_id, source) ==
    LET out == delete_by_source(Store, person_id, source, filter_delete) IN
    /\ SetStore(out.st)
    /\ last' = [op |-> "delete", person_id |-> person_id, source |-> source,
                before |-> Store, ret |-> out.ret, calls |-> out.calls,
                sent_ids |-> out.sent_ids, after |-> last]
    /\ UNCHANGED <<filter_delete, boot, llm, chat, threads>>

Delete ==
    /\ Idle
    /\ \E person_id \in Persons, source \in Sources : DeleteCall(person_id, source)

\* delete_by_source called a second time in a row for the same group.
DeleteAgain ==
    /\ last.op = "delete"
    /\ last.after.op = "idle"
    /\ DeleteCall(last.person_id, last.source)

ReplaceCall(person_id, source, documents, extra_metadata) ==
    LET out == replace_source_documents(Store, person_id, source, documents,
                                        extra_metadata, filter_delete) IN
    /\ Idle
    /\ out.st.next_id <= MaxChunks + 1
    /\ SetStore(out.st)
    /\ last' = [op |-> "replace", person_id |-> person_id, source |-> source,
                documents |-> documents, extra_metadata |-> extra_metadata,
                before |-> Store, mid |-> out.mid,
                ret |-> out.ret, calls |-> out.calls, ids |-> out.ids]
    /\ UNCHANGED <<filter_delete, boot, llm, chat, threads>>

Replace ==
    \E person_id \in Persons, source \in Sources, documents \in DocLists,
       extra_metadata \in Extras :
        ReplaceCall(person_id, source, documents, extra_metadata)

\* `after` is the record of the call the search follows at once, or `last` when idle.
SearchCall(person_id, query, top_k, min_score, enable_hybrid_fallback, response) ==
    LET out == search(keyword_cache, person_id, query, top_k, min_score,
                      enable_hybrid_fallback, response) IN
    /\ last' = [op |-> "search", person_id |-> person_id, query |-> query,
                top_k |-> top_k, min_score |-> min_score,
                enable_hybrid_fallback |-> enable_hybrid_fallback,
                response |-> response, ret |-> out.ret, calls |-> out.calls,
                after |-> last]
    /\ UNCHANGED <<index, source_vector_ids, keyword_cache, next_id, filter_delete,
                   boot, llm, chat, threads>>

Search ==
    /\ Idle
    /\ \E person_id \in Persons, query \in Queries, top_k \in TopKs,
          min_score \in MinScores, enable_hybrid_fallback \in BOOLEAN :
        \E response \in QueryResponses(index, person_id, top_k) :
            SearchCall(person_id, query, top_k, min_score, enable_hybrid_fallback, response)

\* A call that indexed or deleted at least one chunk.
Effective(call) ==
    \/ call.op \in {"upsert", "replace"} /\ call.ids # {}
    \/ call.op = "delete" /\ call.ret > 0

\* A caller that looks at the effect of the call it just made, as the scripts do
\* (evaluate(): replace_source_documents then search; test_retrieval_pinecone_e2e:
\* delete_by_source, upsert_documents, search): the search is issued right after
\* the call, for the same person, with the hybrid fallback on.
SearchAfterCall ==
    /\ Effective(last)
    /\ \E query \in Queries, top_k \in TopKs, min_score \in MinScores :
        \E response \in QueryResponses(index, last.person_id, top_k) :
            SearchCall(last.person_id, query, top_k, min_score, TRUE, response)

\* The caller takes the result of the outstanding call.
Return ==
    /\ ~Idle
    /\ last' = [op |-> "idle"]
    /\ UNCHANGED <<index, source_vector_ids, keyword_cache, next_id, filter_delete,
                   boot, llm, chat, threads>>

Next == Upsert \/ Delete \/ DeleteAgain \/ Replace \/ Search \/ SearchAfterCall \/ Return

Spec == Init /\ [][Next]_vars

(***************************************************************************)
(* Vocabulary of the properties.  A property reads the record of the       *)
(* outstanding call in `last` and the store; it uses the ghost fields of a *)
(* chunk id (the person_id, source and chunk text of the call that created *)
(* it) to say where a stored chunk came from.                              *)
(***************************************************************************)
IsSearch == last.op = "search"

\* The ids of the matches a search returned.
ReturnedIds == { last.ret[i].id : i \in DOMAIN last.ret }

\* A text with no non-space character.
Blank(text) == \A i \in DOMAIN text : text[i] = " "

\* The terms of a query as written: its maximal runs of non-space characters.
Terms(query) == Range(Split(query))

\* The backend's match is at or above the search's min_score.
Qualifies(match) ==
    match.score.n * last.min_score.d >= last.min_score.n * match.score.d

\* The positions of the response whose match qualifies.
QualifyingAt == { j \in DOMAIN last.response : Qualifies(last.response[j]) }

\* The ids a store holds, in the index or in a person's keyword cache.
StoreIds(st) ==
    { e.id : e \in st.index }
        \cup UNION { { st.kc[p][i].id : i \in DOMAIN st.kc[p] } : p \in DOMAIN st.kc }

\* The ids of the chunks created by calls for (person_id, source).
GroupIds(st, person_id, source) ==
    { id \in StoreIds(st) : id.person_id = person_id /\ id.source = source }

(***************************************************************************)
(* C1.  Person isolation.                                                  *)
(***************************************************************************)
\* C1: every match a search for person p returns, on the vector path or the
\* keyword fallback path, is a chunk created by an upsert_documents or
\* replace_source_documents call whose person_id argument was p.
C1_PersonIsolation ==
    IsSearch => \A i \in DOMAIN last.ret : last.ret[i].id.person_id = last.person_id

(***************************************************************************)
(* C2.  Hit after insert.                                                  *)
(***************************************************************************)
\* The search follows upsert_documents(p, D, s), issued without extra_metadata,
\* at once, for the same person, with top_k >= 1 and the hybrid fallback on.
SearchAfterUpsert ==
    /\ IsSearch
    /\ last.after.op = "upsert"
    /\ last.after.extra_metadata = eNone
    /\ last.person_id = last.after.person_id
    /\ last.top_k >= 1
    /\ last.enable_hybrid_fallback

\* The query has a term, and each of its terms occurs verbatim in document d of D.
TermsOccurIn(d) ==
    /\ d \in Range(last.after.documents)
    /\ Terms(last.query) # {}
    /\ \A t \in Terms(last.query) : Contains(t, d)

\* The text is one of the chunks cut from document d.
FromDocument(text, d) == text \in Range(DocumentChunks(d))

\* The search returned a match whose text comes from d.
ReturnsFrom(d) == \E i \in DOMAIN last.ret : FromDocument(last.ret[i].text, d)

\* The keyword score of a chunk text for the search's query.
KeywordScore(text) ==
    Div(Overlap(Tokens(last.query), text), Cardinality(Tokens(last.query)))

C3_DeleteRemoves ==
    (IsSearch /\ last.after.op = "delete" /\ last.person_id = last.after.person_id) =>
        \A id \in ReturnedIds :
            ~(id.person_id = last.after.person_id /\ id.source = last.after.source)

(***************************************************************************)
(* C4.  Replace makes old content unreachable.                             *)
(***************************************************************************)
\* The search follows replace_source_documents(p, s, D2), issued without
\* extra_metadata, for the same person, with the hybrid fallback on.
SearchAfterReplace ==
    /\ IsSearch
    /\ last.after.op = "replace"
    /\ last.after.extra_metadata = eNone
    /\ last.person_id = last.after.person_id
    /\ last.enable_hybrid_fallback

\* D1's chunks: those the store held for (p, s) when the replace was called.
OldIds == GroupIds(last.after.before, last.after.person_id, last.after.source)

\* The chunk is stored under the person and source of the call that created it,
\* with the text that call cut (no extra_metadata replaced them).
StoredPlainly(st, id) ==
    /\ \A e \in st.index :
         e.id = id => /\ e.metadata.person_id = id.person_id
                      /\ e.metadata.source = id.source
                      /\ e.metadata.text = id.chunk
    /\ \A p \in DOMAIN st.kc : \A i \in DOMAIN st.kc[p] :
         st.kc[p][i].id = id => st.kc[p][i].source = id.source /\ st.kc[p][i].text = id.chunk

\* D1 was upserted for (p, s) without extra_metadata and produced chunks.
ReplacedPlainD1 ==
    /\ OldIds # {}
    /\ \A id \in OldIds : StoredPlainly(last.after.before, id)

\* The chunk texts of D2.
NewTexts == Range(_split_documents(last.after.documents))

\* The query has a term, and every term occurs verbatim in a text of `here` and
\* in no text of `there`.
TermsOnlyIn(here, there) ==
    /\ Terms(last.query) # {}
    /\ \A t \in Terms(last.query) :
         /\ \E x \in here : Contains(t, x)
         /\ ~\E y \in there : Contains(t, y)

PositionInCall(id) == id.n - last.before.next_id + 1

\* C5: every chunk upsert_documents stores carries person_id, source,
\* chunk_index, text and created_at as the engine computed them, and every other
\* key of extra_metadata as given: a reserved key in extra_metadata does not
\* replace the engine's value.
C5_ReservedKeysWin ==
    last.op = "upsert" =>
        \A e \in index :
            e.id \in last.ids =>
                /\ e.metadata.person_id = last.person_id
                /\ e.metadata.source = last.source
                /\ e.metadata.chunk_index = PositionInCall(e.id)
                /\ e.metadata.text = _split_documents(last.documents)[PositionInCall(e.id)]
                /\ e.metadata.created_at = Timestamp
                /\ \A k \in (DOMAIN last.extra_metadata) \ ReservedKeys :
                       e.metadata[k] = last.extra_metadata[k]

(***************************************************************************)
(* C6, C7, C8.  The two retrieval paths of search.                         *)
(***************************************************************************)
\* The search read the keyword cache.
ReadCache == "_keyword_search" \in Range(last.calls)

\* The person's cached entries.
CachedFor(person_id) ==
    IF person_id \in DOMAIN keyword_cache THEN Range(keyword_cache[person_id]) ELSE {}

\* C6: a result list holds keyword_fallback-tagged matches only if the vector
\* query produced no match with score >= min_score; a match taken from the
\* vector query is tagged "vector", a match taken from the cache is tagged
\* "keyword_fallback", and one list never mixes the two tags.
C6_RetrievalModes ==
    IsSearch =>
        /\ (\E i \in DOMAIN last.ret : last.ret[i].retrieval_mode = "keyword_fallback")
              => QualifyingAt = {}
        /\ \A i, j \in DOMAIN last.ret :
              last.ret[i].retrieval_mode = last.ret[j].retrieval_mode
        /\ \A i \in DOMAIN last.ret :
              \/ /\ last.ret[i].retrieval_mode = "vector"
                 /\ \E j \in DOMAIN last.response :
                       /\ last.response[j].id = last.ret[i].id
                       /\ last.response[j].score = last.ret[i].score
              \/ /\ last.ret[i].retrieval_mode = "keyword_fallback"
                 /\ ReadCache
                 /\ \E item \in CachedFor(last.person_id) : item.id = last.ret[i].id
        /\ ~ReadCache => \A i \in DOMAIN last.ret : last.ret[i].retrieval_mode = "vector"

\* The vector query answered matches, all below min_score, and the result is
\* tagged keyword_fallback.
C6_Witness ==
    /\ IsSearch
    /\ last.response # << >>
    /\ last.ret # << >>
    /\ \A i \in DOMAIN last.ret : last.ret[i].retrieval_mode = "keyword_fallback"

\* C7: when the vector query has a match with score >= min_score, search
\* returns exactly the backend's matches with score >= min_score (each once, with
\* the backend's score and stored text, source and metadata, tagged "vector"),
\* ordered by non-increasing score and cut to at most top_k: none below
\* min_score is returned, and none at or above it is dropped while fewer than
\* top_k are returned.
C7_VectorPath ==
    (IsSearch /\ QualifyingAt # {}) =>
        /\ Len(last.ret) = Min(last.top_k, Cardinality(QualifyingAt))
        /\ \A i \in DOMAIN last.ret :
              /\ last.ret[i].retrieval_mode = "vector"
              /\ \E j \in QualifyingAt :
                    /\ last.ret[i].id = last.response[j].id
                    /\ last.ret[i].score = last.response[j].score
                    /\ last.ret[i].text = last.response[j].metadata.text
                    /\ last.ret[i].source = last.response[j].metadata.source
                    /\ last.ret[i].metadata = last.response[j].metadata
                    /\ last.response[j].metadata.person_id = last.person_id
        /\ \A i, j \in DOMAIN last.ret : i # j => last.ret[i].id # last.ret[j].id
        /\ \A i, j \in DOMAIN last.ret :
              i < j => last.ret[j].score.n * last.ret[i].score.d
                          <= last.ret[i].score.n * last.ret[j].score.d
        /\ Len(last.ret) < last.top_k =>
              \A j \in QualifyingAt : last.response[j].id \in ReturnedIds

\* The backend answered two matches in increasing order of score, one of them
\* below min_score: the result is the other one alone; or both qualify and the
\* result holds them in the opposite order.
C7_Witness ==
    /\ IsSearch
    /\ Len(last.response) = 2
    /\ FLess(last.response[1].score, last.response[2].score)
    /\ \/ /\ Cardinality(QualifyingAt) = 1
          /\ Len(last.ret) = 1
          /\ last.ret[1].id = last.response[2].id
       \/ /\ Cardinality(QualifyingAt) = 2
          /\ Len(last.ret) = 2
          /\ last.ret[1].id = last.response[2].id

\* C8: when no match of the vector query has score >= min_score, search with
\* enable_hybrid_fallback = True returns exactly the keyword cache's scored
\* result for the same person, query and top_k, min_score not applied (matches
\* scoring below min_score are returned); with enable_hybrid_fallback = False it
\* returns the empty list and does not read the cache.
C8_Fallback ==
    (IsSearch /\ QualifyingAt = {}) =>
        /\ last.enable_hybrid_fallback =>
              /\ ReadCache
              /\ last.ret = _keyword_search(keyword_cache, last.person_id,
                                            last.query, last.top_k)
              /\ \A item \in CachedFor(last.person_id) :
                    (last.top_k >= Cardinality(CachedFor(last.person_id))
                       /\ \E t \in Tokens(last.query) : Contains(t, Lower(item.text)))
                      => item.id \in ReturnedIds
        /\ ~last.enable_hybrid_fallback => last.ret = << >> /\ ~ReadCache

\* The fallback returned a match whose keyword score is below min_score.
C8_Witness ==
    /\ IsSearch
    /\ QualifyingAt = {}
    /\ last.enable_hybrid_fallback
    /\ \E i \in DOMAIN last.ret : FLess(last.ret[i].score, last.min_score)

(***************************************************************************)
(* C9, C10.  Empty inputs.                                                 *)
(***************************************************************************)
\* C9: upsert_documents called with documents that are all empty or
\* whitespace-only (the empty list included) returns 0, issues no embed call and
\* no backend upsert, and leaves the index, the keyword cache and the tracked-id
\* map as they were: no chunk is created and no empty group entry appears.
C9_BlankUpsert ==
    (last.op = "upsert" /\ \A i \in DOMAIN last.documents : Blank(last.documents[i])) =>
        /\ last.ret = 0
        /\ last.calls = << >>
        /\ last.ids = {}
        /\ index = last.before.index
        /\ keyword_cache = last.before.kc
        /\ DOMAIN keyword_cache = DOMAIN last.before.kc
        /\ source_vector_ids = last.before.svi
        /\ DOMAIN source_vector_ids = DOMAIN last.before.svi
        /\ next_id = last.before.next_id

\* Whitespace-only documents were upserted for a group the store does not track,
\* while the index holds chunks.
C9_Witness ==
    /\ last.op = "upsert"
    /\ last.documents # << >>
    /\ \A i \in DOMAIN last.documents : Blank(last.documents[i])
    /\ index # {}
    /\ <<last.person_id, last.source>> \notin DOMAIN source_vector_ids

\* C10: search called with a query that has no tokens (empty or
\* whitespace-only) returns an empty match list, whatever the index and the
\* cache hold and whatever min_score and enable_hybrid_fallback are.
C10_NoTokens ==
    (IsSearch /\ Blank(last.query)) => last.ret = << >>

(***************************************************************************)
(* C11, C12.  The count delete_by_source returns.                          *)
(***************************************************************************)
\* C11: delete_by_source(p, s) called twice in a row, with no upsert between:
\* the second call returns 0 (never more than the first returned) and changes
\* neither the keyword cache nor the tracked-id map.
C11_DeleteTwice ==
    (last.op = "delete" /\ last.after.op = "delete") =>
        /\ last.ret = 0
        /\ last.ret <= last.after.ret
        /\ keyword_cache = last.before.kc
        /\ source_vector_ids = last.before.svi

\* The first of the two calls deleted chunks, and the second has returned.
C11_Witness ==
    /\ last.op = "delete"
    /\ last.after.op = "delete"
    /\ last.after.ret > 0
    /\ last.after.person_id = last.person_id
    /\ last.after.source = last.source

\* The entries a delete took out of the index, and out of the person's cache.
RemovedFromIndex == Cardinality(last.before.index \ index)

RemovedFromCache ==
    IF last.person_id \in DOMAIN last.before.kc
    THEN Len(last.before.kc[last.person_id]) - Len(keyword_cache[last.person_id])
    ELSE 0

\* C12: the count delete_by_source(p, s) returns is the larger of the number of
\* entries it removed from the vector index and the number it removed from the
\* keyword cache, and it is never larger than the number of chunks that existed
\* for the group (p, s) before the call.
C12_DeleteCount ==
    last.op = "delete" =>
        /\ last.ret = Max(RemovedFromIndex, RemovedFromCache)
        /\ last.ret <= Cardinality(GroupIds(last.before, last.person_id, last.source))

(***************************************************************************)
(* Construction of the service: VectorStoreService.__init__ and the lazy   *)
(* singleton get_vector_store_service of main.py.                          *)
(*                                                                         *)
(* boot.env says what the process finds: which settings are set, whether   *)
(* the pinecone SDK and the retrieval packages import, whether the         *)
(* embedding model loads.  boot.index_exists is the remote side: whether   *)
(* the backend already has the index.                                      *)
(***************************************************************************)
BootEnvs ==
    [api_key : BOOLEAN, index_name : BOOLEAN, environment : BOOLEAN,
     sdk : BOOLEAN, packages : BOOLEAN, model : BOOLEAN]

\* _ensure_index: list the indexes, create the index when it is not there.
_ensure_index(index_exists) ==
    IF index_exists THEN <<"list_indexes">> ELSE <<"list_indexes", "create_index">>

\* __init__: the exception it raises ("" for none) and the backend calls it
\* made before that.  The lazy imports and SentenceTransformer(...) come after
\* _ensure_index and are not wrapped: their own exception leaves __init__.
__init__(env, index_exists) ==
    IF ~env.api_key \/ ~env.index_name
    THEN [raised |-> "ConfigurationError", calls |-> << >>]
    ELSE IF ~env.environment
    THEN [raised |-> "ConfigurationError", calls |-> << >>]
    ELSE IF ~env.sdk
    THEN [raised |-> "ConfigurationError", calls |-> << >>]
    ELSE IF ~env.packages
    THEN [raised |-> "ImportError", calls |-> _ensure_index(index_exists)]
    ELSE IF ~env.model
    THEN [raised |-> "EmbedderError", calls |-> _ensure_index(index_exists)]
    ELSE [raised |-> "", calls |-> _ensure_index(index_exists)]

\* get_vector_store_service(): construct on first use, keep the instance.
get_vector_store_service(b) ==
    IF b.service = "none"
    THEN LET made == __init__(b.env, b.index_exists) IN
         [b EXCEPT !.service = IF made.raised = "" THEN "ready" ELSE "none",
                   !.outcome = IF made.raised = "" THEN "returned" ELSE made.raised,
                   !.calls = made.calls,
                   !.index_exists = b.index_exists \/ "create_index" \in Range(made.calls)]
    ELSE [b EXCEPT !.outcome = "returned", !.calls = << >>]

BootInit ==
    /\ boot \in [env : BootEnvs, index_exists : BOOLEAN, service : {"none"},
                 outcome : {"none"}, calls : {<< >>}]
    /\ index = {}
    /\ source_vector_ids = [k \in {} |-> {}]
    /\ keyword_cache = [p \in {} |-> << >>]
    /\ next_id = 1
    /\ filter_delete = TRUE
    /\ last = [op |-> "idle"]
    /\ llm = Parked
    /\ chat = Parked
    /\ threads = Parked

\* An endpoint runs get_vector_store_service().<operation>(...): the public
\* operation is reached when the outcome is "returned".
RetrievalRequest ==
    /\ boot' = get_vector_store_service(boot)
    /\ UNCHANGED <<engineVars, llm, chat, threads>>

\* The process is restarted, possibly reconfigured: the module global is None
\* again; the backend keeps its index.
Restart ==
    /\ boot.outcome # "none"
    /\ \E env \in BootEnvs :
         boot' = [boot EXCEPT !.env = env, !.service = "none", !.outcome = "none",
                              !.calls = << >>]
    /\ UNCHANGED <<engineVars, llm, chat, threads>>

BootNext == RetrievalRequest \/ Restart

SpecBoot == BootInit /\ [][BootNext]_vars

(***************************************************************************)
(* C13.  Construction fails fast.                                          *)
(***************************************************************************)
\* A required piece of configuration is missing: API key, index name, region,
\* or the embedding model is unavailable.
ConfigurationMissing ==
    ~boot.env.api_key \/ ~boot.env.index_name \/ ~boot.env.environment \/ ~boot.env.model

\* C13: constructing the engine with required configuration missing raises
\* ConfigurationError, before any state-changing call to the vector backend (a
\* construction that fails creates no index), and no public operation is
\* reached on an engine whose construction failed.
C13_FailFast ==
    /\ (boot.outcome # "none" /\ ConfigurationMissing) =>
          /\ boot.outcome = "ConfigurationError"
          /\ boot.service = "none"
    /\ boot.outcome \notin {"none", "returned"} => "create_index" \notin Range(boot.calls)
    /\ boot.outcome = "returned" => boot.service = "ready"

(***************************************************************************)
(* The LLM call wrapper: generate_with_retry of llm_service.py.            *)
(*                                                                         *)
(* llm.pc is the coroutine's position: "start" before the max_attempts     *)
(* check, "loop" at the head of an iteration, "done" when it has returned  *)
(* or raised.  llm.results lists what each generate_text call did.         *)
(***************************************************************************)
\* The largest max_attempts the model passes.
MaxAttempts == 4

\* What one generate_text call does: it returns a text, raises an LLMError, or
\* raises another Exception.
GenerateTextResults ==
    [kind : {"text"}, text : {"t1", "t2"}]
        \cup [kind : {"LLMError"}, message : {"e1", "e2"}]
        \cup [kind : {"Exception"}, message : {"boom"}]

\* if max_attempts < 1: raise ValueError(...)
RetryEnter ==
    /\ llm.pc = "start"
    /\ llm' = IF llm.max_attempts < 1
              THEN [llm EXCEPT !.pc = "done", !.outcome = [kind |-> "ValueError"]]
              ELSE [llm EXCEPT !.pc = "loop", !.attempt = 1]
    /\ UNCHANGED <<engineVars, boot, chat, threads>>

\* A loop that does not stop at a success: it keeps the text and calls again
\* while attempts remain.
RetryAttempt_calls_after_success ==
    /\ llm.pc = "loop"
    /\ llm.attempt <= llm.max_attempts
    /\ \E result \in GenerateTextResults :
         llm' = IF llm.attempt >= llm.max_attempts
                THEN [llm EXCEPT !.pc = "done", !.results = Append(@, result),
                                 !.outcome =
                                    IF result.kind = "text"
                                    THEN [kind |-> "returned", text |-> result.text]
                                    ELSE [kind |-> "LLMError", message |-> "failed",
                                          wraps |-> "none"]]
                ELSE [llm EXCEPT !.results = Append(@, result), !.attempt = @ + 1]
    /\ UNCHANGED <<engineVars, boot, chat, threads>>

\* A loop that lets the last attempt's exception out as it is, unwrapped.
RetryAttempt_unwrapped ==
    /\ llm.pc = "loop"
    /\ llm.attempt <= llm.max_attempts
    /\ \E result \in GenerateTextResults :
         llm' = IF result.kind = "text"
                THEN [llm EXCEPT !.pc = "done", !.results = Append(@, result),
                                 !.outcome = [kind |-> "returned", text |-> result.text]]
                ELSE IF llm.attempt >= llm.max_attempts
                THEN [llm EXCEPT !.pc = "done", !.results = Append(@, result),
                                 !.outcome = [kind |-> result.kind,
                                              message |-> result.message,
                                              wraps |-> "none"]]
                ELSE [llm EXCEPT !.results = Append(@, result), !.attempt = @ + 1]
    /\ UNCHANGED <<engineVars, boot, chat, threads>>

\* One iteration of `for attempt in range(1, max_attempts + 1)`: await
\* generate_text(prompt); on an exception raise at the last attempt, otherwise
\* sleep and go round again.
RetryAttempt ==
    /\ llm.pc = "loop"
    /\ llm.attempt <= llm.max_attempts
    /\ \E result \in GenerateTextResults :
         llm' = IF result.kind = "text"
                THEN [llm EXCEPT !.pc = "done", !.results = Append(@, result),
                                 !.outcome = [kind |-> "returned", text |-> result.text]]
                ELSE IF llm.attempt >= llm.max_attempts
                THEN [llm EXCEPT !.pc = "done", !.results = Append(@, result),
                                 !.outcome =
                                    IF result.kind = "LLMError"
                                    THEN [kind |-> "LLMError", message |-> result.message,
                                          wraps |-> "none"]
                                    ELSE [kind |-> "LLMError",
                                          message |-> "LLM generation failed after retries",
                                          wraps |-> result.kind]]
                ELSE [llm EXCEPT !.results = Append(@, result), !.attempt = @ + 1]
    /\ UNCHANGED <<engineVars, boot, chat, threads>>

\* The raise after the loop (llm_service.py line 38) is not reachable: the
\* last iteration always returns or raises.
RetryInit ==
    /\ llm \in [pc : {"start"}, max_attempts : 0..MaxAttempts, attempt : {0},
                results : {<< >>}, outcome : {[kind |-> "none"]}]
    /\ index = {}
    /\ source_vector_ids = [k \in {} |-> {}]
    /\ keyword_cache = [p \in {} |-> << >>]
    /\ next_id = 1
    /\ filter_delete = TRUE
    /\ last = [op |-> "idle"]
    /\ boot = Parked
    /\ chat = Parked
    /\ threads = Parked

RetryNext == RetryEnter \/ RetryAttempt

\* The event loop runs the coroutine: every await (generate_text, which has a
\* 30 s client timeout, and asyncio.sleep) completes.
SpecRetry == RetryInit /\ [][RetryNext]_vars /\ WF_vars(RetryNext)

RetryDone == llm.pc = "done"
Calls == Len(llm.results)
Succeeded(k) == k \in 1..Calls /\ llm.results[k].kind = "text"

\* C15: the wrapper returns the text of the first generate_text call that
\* succeeds and makes no call after it: a successful call is the last call,
\* and the wrapper has then returned exactly that call's text.
C15_FirstSuccess ==
    llm # Parked =>
        /\ \A k \in 1..Calls :
             Succeeded(k) =>
                /\ k = Calls
                /\ RetryDone
                /\ llm.outcome = [kind |-> "returned", text |-> llm.results[k].text]
        /\ (RetryDone /\ llm.outcome.kind = "returned") => Succeeded(Calls)

\* The third call succeeds after two failures (the unit test's case).
C15_Witness ==
    /\ RetryDone
    /\ Calls = 3
    /\ llm.results[1].kind # "text" /\ llm.results[2].kind # "text"
    /\ llm.outcome = [kind |-> "returned", text |-> llm.results[3].text]

AllFailed == \A k \in 1..Calls : llm.results[k].kind # "text"

\* C16, safety part: with max_attempts >= 1, when every attempt has failed
\* and the wrapper is done, it made exactly max_attempts calls and raised
\* LLMError: the last call's own LLMError, or a wrapping one when the last
\* call raised something else; with max_attempts < 1 it raised ValueError
\* and made no call; it never makes more than max_attempts calls.
C16_Outcome ==
    llm # Parked =>
        /\ Calls <= Max(llm.max_attempts, 0)
        /\ (RetryDone /\ llm.max_attempts < 1) =>
              llm.outcome.kind = "ValueError" /\ Calls = 0
        /\ (RetryDone /\ llm.max_attempts >= 1 /\ AllFailed) =>
              /\ Calls = llm.max_attempts
              /\ llm.outcome.kind = "LLMError"
              /\ IF llm.results[Calls].kind = "LLMError"
                 THEN llm.outcome.wraps = "none"
                      /\ llm.outcome.message = llm.results[Calls].message
                 ELSE llm.outcome.wraps = llm.results[Calls].kind

\* C16: generate_with_retry always terminates, with the outcomes above.
C16_Terminates == <>RetryDone /\ []C16_Outcome

\* Every attempt fails, the last one with a non-LLM exception.
C16_Witness ==
    /\ RetryDone
    /\ llm.max_attempts = 3
    /\ AllFailed
    /\ Calls = 3
    /\ llm.results[3].kind = "Exception"
    /\ llm.outcome.kind = "LLMError"

(***************************************************************************)
(* C18.  Group state consistency.                                          *)
(***************************************************************************)
\* What each of the three stores holds for a group: the index by the stored
\* metadata its delete filter reads, the tracked-id map by its key, the
\* keyword cache by the entry's source field in the person's list.
IndexGroup(person_id, source) ==
    { e.id : e \in { x \in index : x.metadata.person_id = person_id
                                   /\ x.metadata.source = source } }

TrackedGroup(person_id, source) ==
    IF <<person_id, source>> \in DOMAIN source_vector_ids
    THEN source_vector_ids[<<person_id, source>>]
    ELSE {}

CacheGroup(person_id, source) ==
    IF person_id \in DOMAIN keyword_cache
    THEN { keyword_cache[person_id][i].id :
             i \in { j \in DOMAIN keyword_cache[person_id] :
                       keyword_cache[person_id][j].source = source } }
    ELSE {}

\* Every person and source a stored chunk or a call names.
KnownPersons ==
    Persons \cup { e.metadata.person_id : e \in index } \cup DOMAIN keyword_cache
KnownSources ==
    Sources \cup { e.metadata.source : e \in index }

\* C18: after any sequential series of returned upsert_documents,
\* replace_source_documents and delete_by_source calls the index, the
\* tracked-id map and the keyword cache hold the same chunk ids for every
\* group; the group is empty in all three right after a delete of it and
\* non-empty in all three right after an upsert or replace of it that
\* produced a chunk.
C18_GroupConsistency ==
    /\ \A p \in KnownPersons, s \in KnownSources :
          /\ IndexGroup(p, s) = TrackedGroup(p, s)
          /\ TrackedGroup(p, s) = CacheGroup(p, s)
    /\ last.op = "delete" =>
          /\ IndexGroup(last.person_id, last.source) = {}
          /\ TrackedGroup(last.person_id, last.source) = {}
          /\ CacheGroup(last.person_id, last.source) = {}
    /\ (last.op \in {"upsert", "replace"} /\ last.ids # {}) =>
          /\ IndexGroup(last.person_id, last.source) # {}
          /\ TrackedGroup(last.person_id, last.source) # {}
          /\ CacheGroup(last.person_id, last.source) # {}

(***************************************************************************)
(* The chat endpoint: chat() of main.py with build_prompt and              *)
(* format_retrieved_context of prompt_builder.py.                          *)
(*                                                                         *)
(* A prompt is the list of its blocks, each a header and a body, in the    *)
(* order build_prompt joins them.  chat.store_calls lists what the handler *)
(* did with the vector store; chat.returned is what search returned.       *)
(***************************************************************************)
\* settings.retrieval_top_k and settings.retrieval_score_threshold (0.2).
retrieval_top_k == 5
retrieval_score_threshold == Frac(1, 5)

\* ChatRequest: retrieval_top_k 0 stands for None; "" for an absent text.
ChatRequests ==
    [person_id : Persons, message : Queries, use_retrieval : BOOLEAN,
     retrieval_top_k : {0} \cup TopKs, system_prompt : {"", "sys"},
     knowledge_text : {"", "k"}]

\* format_retrieved_context that keeps the items whose text is empty.
format_retrieved_context_keeps_empty(retrieved_context) ==
    [i \in DOMAIN retrieved_context |->
        [index |-> i, source |-> retrieved_context[i].source,
         score |-> retrieved_context[i].score,
         text |-> Strip(retrieved_context[i].text)]]

\* format_retrieved_context: one labelled entry per item whose stripped text
\* is not empty, numbered by the item's position in the list.
format_retrieved_context(retrieved_context) ==
    LET entry(i) == [index |-> i, source |-> retrieved_context[i].source,
                     score |-> retrieved_context[i].score,
                     text |-> Strip(retrieved_context[i].text)]
        all == [i \in DOMAIN retrieved_context |-> entry(i)]
    IN  SelectSeq(all, LAMBDA e : e.text # << >>)

\* build_prompt: the blocks that are present, in order.
build_prompt(user_message, system_prompt, person_identity, knowledge_text, retrieved_context) ==
    LET retrieval_block == format_retrieved_context(retrieved_context) IN
    (IF system_prompt # "" THEN <<[header |-> "System Prompt:", body |-> system_prompt]>>
     ELSE << >>)
    \o (IF person_identity # ""
        THEN <<[header |-> "Person Identity:", body |-> person_identity]>> ELSE << >>)
    \o (IF knowledge_text # ""
        THEN <<[header |-> "Knowledge:", body |-> knowledge_text]>> ELSE << >>)
    \o (IF retrieval_block # << >>
        THEN <<[header |-> "Retrieved Context:", body |-> retrieval_block]>> ELSE << >>)
    \o <<[header |-> "User Message:", body |-> Strip(user_message)]>>

\* What the handler leaves when idle.
ChatIdle == [pc |-> "idle"]

\* The handler, start to finish, for one request.  person_found is what
\* try_get_person answers, response what index.query answers, generated what
\* generate_with_retry does ("" for a raised LLMError).
ChatHandler(request, person_found, response, generated) ==
    LET top_k == IF request.retrieval_top_k # 0 THEN request.retrieval_top_k
                 ELSE retrieval_top_k
        got == get_vector_store_service(boot)
        out == search(keyword_cache, request.person_id, request.message, top_k,
                      retrieval_score_threshold, TRUE, response)
        searched == request.use_retrieval /\ got.outcome = "returned"
        retrieved_docs == IF searched THEN out.ret ELSE << >>
        store_calls == IF ~request.use_retrieval THEN << >>
                       ELSE IF searched THEN <<"get_vector_store_service">> \o out.calls
                       ELSE <<"get_vector_store_service">>
        system_prompt == IF request.system_prompt # "" THEN request.system_prompt
                         ELSE IF person_found THEN "persona" ELSE ""
        person_identity == IF person_found THEN "identity" ELSE ""
        knowledge == IF person_found /\ request.knowledge_text # "" THEN "auto+k"
                     ELSE IF person_found THEN "auto"
                     ELSE request.knowledge_text
        prompt == build_prompt(request.message, system_prompt, person_identity,
                               knowledge, retrieved_docs)
        metadata == [retrieval_used |-> request.use_retrieval,
                     retrieved_chunks |-> Len(retrieved_docs),
                     person_found |-> person_found]
    IN  /\ boot' = IF request.use_retrieval THEN got ELSE boot
        /\ chat' =
             IF request.use_retrieval /\ got.outcome # "returned"
             THEN [pc |-> "done", request |-> request, store_calls |-> store_calls,
                   returned |-> << >>, prompt |-> << >>,
                   outcome |-> IF got.outcome = "ConfigurationError"
                               THEN "ValidationError" ELSE got.outcome,
                   metadata |-> [retrieval_used |-> request.use_retrieval]]
             ELSE [pc |-> "done", request |-> request, store_calls |-> store_calls,
                   returned |-> IF searched THEN out.ret ELSE << >>,
                   prompt |-> prompt,
                   outcome |-> IF generated = "" THEN "LLMError" ELSE "ChatResponse",
                   metadata |-> IF generated = ""
                                THEN [retrieval_used |-> request.use_retrieval]
                                ELSE metadata]

\* POST /v1/chat.
ChatEndpoint ==
    /\ chat.pc = "idle"
    /\ \E request \in ChatRequests, person_found \in BOOLEAN, generated \in {"", "t1"} :
         \E response \in
              IF request.use_retrieval /\ get_vector_store_service(boot).outcome = "returned"
              THEN QueryResponses(index, request.person_id,
                                  IF request.retrieval_top_k # 0
                                  THEN request.retrieval_top_k ELSE retrieval_top_k)
              ELSE {<< >>} :
            ChatHandler(request, person_found, response, generated)
    /\ UNCHANGED <<engineVars, llm, threads>>

\* The response (or the error) has left; the process serves the next request.
ChatReturn ==
    /\ chat.pc = "done"
    /\ chat' = ChatIdle
    /\ UNCHANGED <<engineVars, boot, llm, threads>>

\* extra_metadata whose "text" is empty: the chunk is stored with no text.
eNoText == [text |-> << >>]

\* The process starts with the service not yet constructed, configured or
\* without its API key; the store already holds what one upsert_documents
\* call for p1 left.
ChatInit ==
    /\ chat = ChatIdle
    /\ boot \in [env : { e \in BootEnvs : e.index_name /\ e.environment /\ e.sdk
                                          /\ e.packages /\ e.model },
                 index_exists : {TRUE}, service : {"none"}, outcome : {"none"},
                 calls : {<< >>}]
    /\ \E documents \in DocLists, extra_metadata \in {eNone, eNoText} :
         LET fresh == [index |-> {}, svi |-> [k \in {} |-> {}],
                       kc |-> [p \in {} |-> << >>], next_id |-> 1]
             st == upsert_documents(fresh, "p1", documents, "s1", extra_metadata).st
         IN  /\ index = st.index
             /\ source_vector_ids = st.svi
             /\ keyword_cache = st.kc
             /\ next_id = st.next_id
    /\ filter_delete = TRUE
    /\ last = [op |-> "idle"]
    /\ llm = Parked
    /\ threads = Parked

ChatNext == ChatEndpoint \/ ChatReturn

SpecChat == ChatInit /\ [][ChatNext]_vars

(***************************************************************************)
(* C17.  Retrieval in the chat endpoint.                                   *)
(***************************************************************************)
ChatDone == chat # Parked /\ chat.pc = "done"

HasRetrievedBlock ==
    \E i \in DOMAIN chat.prompt : chat.prompt[i].header = "Retrieved Context:"

\* C17: for every chat request the vector store is constructed or queried if
\* and only if use_retrieval is true; the response metadata's
\* retrieved_chunks is the number of matches search returned, 0 when
\* retrieval was not requested; and the prompt has the "Retrieved Context:"
\* block only when search returned a match with non-empty text.
C17_ChatRetrieval ==
    ChatDone =>
        /\ (chat.store_calls # << >>) <=> chat.request.use_retrieval
        /\ chat.outcome = "ChatResponse" =>
              /\ chat.metadata.retrieved_chunks = Len(chat.returned)
              /\ ~chat.request.use_retrieval => chat.metadata.retrieved_chunks = 0
        /\ HasRetrievedBlock =>
              \E i \in DOMAIN chat.returned : chat.returned[i].text # << >>

\* Retrieval was requested and search returned two matches with text: the
\* block is there and the count is 2.
C17_Witness ==
    /\ ChatDone
    /\ chat.outcome = "ChatResponse"
    /\ chat.request.use_retrieval
    /\ chat.metadata.retrieved_chunks = 2
    /\ HasRetrievedBlock

\* Retrieval was requested, matches came back, none with text: no block.
C17_WitnessNoText ==
    /\ ChatDone
    /\ chat.outcome = "ChatResponse"
    /\ chat.metadata.retrieved_chunks > 0
    /\ ~HasRetrievedBlock

(***************************************************************************)
(* The engine under concurrent callers: one thread in upsert_documents,    *)
(* one in delete_by_source, one in search, on one VectorStoreService.      *)
(*                                                                         *)
(* Each action is one step of one thread between two points where the      *)
(* interpreter can switch threads: a call to the embedder or the backend,  *)
(* or one call on a dict, set or list.  threads.u, threads.d and threads.s *)
(* hold each thread's position (pc), its locals, the embedder and backend  *)
(* calls it made with their results, and what it returned or raised.       *)
(* threads.st0 is the store when the three calls began.                    *)
(***************************************************************************)
\* What a call to the embedder or the backend can raise instead of answering.
BackendErrors == {"TypeError", "ConnectionError"}

Called(call, result) == [call |-> call, result |-> result]

\* A thread that leaves with an exception of the engine's own in place of err.
Raise_wrapping(t, call, err) ==
    [t EXCEPT !.pc = "raised", !.raised = "VectorStoreError",
              !.calls = Append(@, Called(call, err))]

\* A thread leaves its operation with the exception err of its call `call`.
Raise(t, call, err) ==
    [t EXCEPT !.pc = "raised", !.raised = err, !.calls = Append(@, Called(call, err))]

\* ---- upsert_documents ----
\* chunks = self._split_documents(documents); return 0 when there is none;
\* vectors = self._embed(chunks); the payload is built with fresh uuids.
UpsertEmbed ==
    LET u == threads.u
        chunks == _split_documents(u.documents)
    IN  /\ u.pc = "start"
        /\ \/ /\ chunks = << >>
              /\ threads' = [threads EXCEPT !.u = [u EXCEPT !.pc = "returned", !.ret = 0]]
              /\ UNCHANGED next_id
           \/ /\ chunks # << >>
              /\ threads' = [threads EXCEPT !.u =
                    [u EXCEPT !.pc = "index.upsert",
                              !.calls = Append(@, Called("embed", "ok")),
                              !.payload = Payload(chunks, u.person_id, u.source,
                                                  u.extra_metadata, next_id)]]
              /\ next_id' = next_id + Len(chunks)
           \/ /\ chunks # << >>
              /\ \E err \in BackendErrors :
                    threads' = [threads EXCEPT !.u = Raise(u, "embed", err)]
              /\ UNCHANGED next_id
        /\ UNCHANGED <<index, source_vector_ids, keyword_cache, filter_delete, last,
                       boot, llm, chat>>

\* An upsert step that mirrors the payload into the keyword cache before the
\* backend has answered, and leaves it there when the backend raises.
UpsertIndex_cache_first ==
    LET u == threads.u
        old == IF u.person_id \in DOMAIN keyword_cache
               THEN keyword_cache[u.person_id] ELSE << >>
        added == [i \in DOMAIN u.payload |-> CacheEntry(u.payload[i])]
    IN  /\ u.pc = "index.upsert"
        /\ \/ /\ index' = index \cup Range(u.payload)
              /\ keyword_cache' = keyword_cache
              /\ threads' = [threads EXCEPT !.u =
                    [u EXCEPT !.pc = "setdefault(key)",
                              !.calls = Append(@, Called("index.upsert", "ok"))]]
           \/ /\ \E err \in BackendErrors :
                    threads' = [threads EXCEPT !.u = Raise(u, "index.upsert", err)]
              /\ keyword_cache' = [p \in (DOMAIN keyword_cache) \cup {u.person_id} |->
                                     IF p = u.person_id THEN old \o added
                                     ELSE keyword_cache[p]]
              /\ UNCHANGED index
        /\ UNCHANGED <<source_vector_ids, next_id, filter_delete, last, boot, llm, chat>>

\* self._index.upsert(vectors=payload)
UpsertIndex ==
    LET u == threads.u IN
    /\ u.pc = "index.upsert"
    /\ \/ /\ index' = index \cup Range(u.payload)
          /\ threads' = [threads EXCEPT !.u =
                [u EXCEPT !.pc = "setdefault(key)",
                          !.calls = Append(@, Called("index.upsert", "ok"))]]
       \/ /\ \E err \in BackendErrors :
                threads' = [threads EXCEPT !.u = Raise(u, "index.upsert", err)]
          /\ UNCHANGED index
    /\ UNCHANGED <<source_vector_ids, keyword_cache, next_id, filter_delete, last,
                   boot, llm, chat>>

\* self._source_vector_ids.setdefault(key, set()): the thread now holds the
\* set object the map has under key.
UpsertTrackGet ==
    LET u == threads.u
        key == <<u.person_id, u.source>>
    IN  /\ u.pc = "setdefault(key)"
        /\ source_vector_ids' =
              [k \in (DOMAIN source_vector_ids) \cup {key} |->
                 IF k \in DOMAIN source_vector_ids THEN source_vector_ids[k] ELSE {}]
        /\ threads' = [threads EXCEPT !.u = [u EXCEPT !.pc = "update(ids)",
                                                      !.set_in_map = TRUE]]
        /\ UNCHANGED <<index, keyword_cache, next_id, filter_delete, last,
                       boot, llm, chat>>

\* .update(item["id"] for item in payload), on the set object the thread
\* holds: the map sees it only while that object is still the map's.
UpsertTrackUpdate ==
    LET u == threads.u
        key == <<u.person_id, u.source>>
        ids == { u.payload[i].id : i \in DOMAIN u.payload }
    IN  /\ u.pc = "update(ids)"
        /\ source_vector_ids' =
              IF u.set_in_map
              THEN [source_vector_ids EXCEPT ![key] = @ \cup ids]
              ELSE source_vector_ids
        /\ threads' = [threads EXCEPT !.u = [u EXCEPT !.pc = "setdefault(person_id)"]]
        /\ UNCHANGED <<index, keyword_cache, next_id, filter_delete, last,
                       boot, llm, chat>>

\* cache_entries = self._keyword_cache.setdefault(person_id, [])
UpsertCacheGet ==
    LET u == threads.u IN
    /\ u.pc = "setdefault(person_id)"
    /\ keyword_cache' =
          [p \in (DOMAIN keyword_cache) \cup {u.person_id} |->
             IF p \in DOMAIN keyword_cache THEN keyword_cache[p] ELSE << >>]
    /\ threads' = [threads EXCEPT !.u = [u EXCEPT !.pc = "extend(entries)",
                                                  !.list_in_map = TRUE]]
    /\ UNCHANGED <<index, source_vector_ids, next_id, filter_delete, last,
                   boot, llm, chat>>

\* cache_entries.extend(...), on the list object the thread holds; then
\* return len(payload).
UpsertCacheExtend ==
    LET u == threads.u
        added == [i \in DOMAIN u.payload |-> CacheEntry(u.payload[i])]
    IN  /\ u.pc = "extend(entries)"
        /\ keyword_cache' =
              IF u.list_in_map
              THEN [keyword_cache EXCEPT ![u.person_id] = @ \o added]
              ELSE keyword_cache
        /\ threads' = [threads EXCEPT !.u = [u EXCEPT !.pc = "returned",
                                                      !.ret = Len(u.payload)]]
        /\ UNCHANGED <<index, source_vector_ids, next_id, filter_delete, last,
                       boot, llm, chat>>

\* ---- delete_by_source ----
\* existing_ids = list(self._source_vector_ids.get(key, set()))
DeleteRead ==
    LET d == threads.d
        key == <<d.person_id, d.source>>
    IN  /\ d.pc = "start"
        /\ threads' = [threads EXCEPT !.d =
              [d EXCEPT !.pc = "index.delete(filter)",
                        !.existing_ids = IF key \in DOMAIN source_vector_ids
                                         THEN source_vector_ids[key] ELSE {}]]
        /\ UNCHANGED <<engineVars, boot, llm, chat>>

\* self._index.delete(filter=...): it deletes, or raises.  A TypeError is
\* caught: the thread goes on to delete(ids=...) when it read ids, to the pop
\* otherwise.  A backend without filter deletion always raises TypeError.
DeleteFilter ==
    LET d == threads.d IN
    /\ d.pc = "index.delete(filter)"
    /\ \/ /\ filter_delete
          /\ index' = { e \in index : ~(e.metadata.person_id = d.person_id
                                        /\ e.metadata.source = d.source) }
          /\ threads' = [threads EXCEPT !.d =
                [d EXCEPT !.pc = "pop(key)",
                          !.calls = Append(@, Called("index.delete(filter)", "ok"))]]
       \/ /\ threads' = [threads EXCEPT !.d =
                [d EXCEPT !.pc = IF d.existing_ids # {} THEN "index.delete(ids)"
                                 ELSE "pop(key)",
                          !.calls = Append(@, Called("index.delete(filter)", "TypeError"))]]
          /\ UNCHANGED index
       \/ /\ filter_delete
          /\ threads' = [threads EXCEPT !.d =
                Raise(d, "index.delete(filter)", "ConnectionError")]
          /\ UNCHANGED index
    /\ UNCHANGED <<source_vector_ids, keyword_cache, next_id, filter_delete, last,
                   boot, llm, chat>>

\* self._index.delete(ids=existing_ids), in the except TypeError branch.
DeleteIds ==
    LET d == threads.d IN
    /\ d.pc = "index.delete(ids)"
    /\ \/ /\ index' = { e \in index : e.id \notin d.existing_ids }
          /\ threads' = [threads EXCEPT !.d =
                [d EXCEPT !.pc = "pop(key)",
                          !.calls = Append(@, Called("index.delete(ids)", "ok"))]]
       \/ /\ \E err \in BackendErrors :
                threads' = [threads EXCEPT !.d = Raise(d, "index.delete(ids)", err)]
          /\ UNCHANGED index
    /\ UNCHANGED <<source_vector_ids, keyword_cache, next_id, filter_delete, last,
                   boot, llm, chat>>

\* deleted_count = len(existing_ids); self._source_vector_ids.pop(key, None).
\* A set object another thread holds for this key is no longer the map's.
DeletePop ==
    LET d == threads.d
        u == threads.u
        key == <<d.person_id, d.source>>
    IN  /\ d.pc = "pop(key)"
        /\ source_vector_ids' =
              [k \in (DOMAIN source_vector_ids) \ {key} |-> source_vector_ids[k]]
        /\ threads' = [threads EXCEPT
              !.d = [d EXCEPT !.pc = "filter cache",
                              !.ret = Cardinality(d.existing_ids)],
              !.u = IF u.pc = "update(ids)" /\ <<u.person_id, u.source>> = key
                    THEN [u EXCEPT !.set_in_map = FALSE] ELSE u]
        /\ UNCHANGED <<index, keyword_cache, next_id, filter_delete, last,
                       boot, llm, chat>>

\* if person_id in self._keyword_cache: the person's list is read, filtered
\* and a new list assigned in its place; return deleted_count.  A list object
\* another thread holds for this person is no longer the map's.
DeleteCache ==
    LET d == threads.d
        u == threads.u
        in_cache == d.person_id \in DOMAIN keyword_cache
        kept == IF in_cache
                THEN SelectSeq(keyword_cache[d.person_id],
                               LAMBDA item : item.source # d.source)
                ELSE << >>
    IN  /\ d.pc = "filter cache"
        /\ keyword_cache' = IF in_cache
                            THEN [keyword_cache EXCEPT ![d.person_id] = kept]
                            ELSE keyword_cache
        /\ threads' = [threads EXCEPT
              !.d = [d EXCEPT !.pc = "returned",
                              !.ret = IF in_cache
                                      THEN Max(d.ret, Len(keyword_cache[d.person_id])
                                                      - Len(kept))
                                      ELSE d.ret],
              !.u = IF in_cache /\ u.pc = "extend(entries)" /\ u.person_id = d.person_id
                    THEN [u EXCEPT !.list_in_map = FALSE] ELSE u]
        /\ UNCHANGED <<index, source_vector_ids, next_id, filter_delete, last,
                       boot, llm, chat>>

\* ---- search ----
\* query_vector = self._embed([query])[0]
SearchEmbed ==
    LET s == threads.s IN
    /\ s.pc = "start"
    /\ \/ threads' = [threads EXCEPT !.s =
             [s EXCEPT !.pc = "index.query", !.calls = Append(@, Called("embed", "ok"))]]
       \/ \E err \in BackendErrors :
             threads' = [threads EXCEPT !.s = Raise(s, "embed", err)]
    /\ UNCHANGED <<engineVars, boot, llm, chat>>

\* response = self._index.query(...), then the rest of search on the answer.
SearchQuery ==
    LET s == threads.s IN
    /\ s.pc = "index.query"
    /\ \/ \E response \in QueryResponses(index, s.person_id, s.top_k) :
             LET out == search(keyword_cache, s.person_id, s.query, s.top_k,
                               s.min_score, TRUE, response)
             IN  threads' = [threads EXCEPT !.s =
                    [s EXCEPT !.pc = "returned", !.ret = out.ret,
                              !.calls = Append(@, Called("index.query", "ok"))]]
       \/ \E err \in BackendErrors :
             threads' = [threads EXCEPT !.s = Raise(s, "index.query", err)]
    /\ UNCHANGED <<engineVars, boot, llm, chat>>

\* The three calls begin on a store that is fresh or holds what one
\* upsert_documents("p1", ["Ab"], "s1") left.
ThreadsInit ==
    /\ \E seeded \in BOOLEAN :
         LET fresh == [index |-> {}, svi |-> [k \in {} |-> {}],
                       kc |-> [p \in {} |-> << >>], next_id |-> 1]
             st0 == IF seeded
                    THEN upsert_documents(fresh, "p1", <<dAb>>, "s1", eNone).st
                    ELSE fresh
         IN  /\ index = st0.index
             /\ source_vector_ids = st0.svi
             /\ keyword_cache = st0.kc
             /\ next_id = st0.next_id
             /\ \E source \in Sources, documents \in {<<dEmpty, dBlank>>, <<dB>>, <<dBAb>>},
                   top_k \in TopKs :
                  threads =
                    [st0 |-> st0,
                     u |-> [pc |-> "start", person_id |-> "p1", source |-> source,
                            documents |-> documents, extra_metadata |-> eNone,
                            payload |-> << >>, set_in_map |-> FALSE,
                            list_in_map |-> FALSE, calls |-> << >>, ret |-> 0,
                            raised |-> ""],
                     d |-> [pc |-> "start", person_id |-> "p1", source |-> "s1",
                            existing_ids |-> {}, calls |-> << >>, ret |-> 0,
                            raised |-> ""],
                     s |-> [pc |-> "start", person_id |-> "p1", query |-> <<"b">>,
                            top_k |-> top_k, min_score |-> Frac(0, 1),
                            calls |-> << >>, ret |-> << >>, raised |-> ""]]
    /\ filter_delete \in BOOLEAN
    /\ last = [op |-> "idle"]
    /\ boot = Parked
    /\ llm = Parked
    /\ chat = Parked

ThreadsNext ==
    \/ UpsertEmbed \/ UpsertIndex \/ UpsertTrackGet \/ UpsertTrackUpdate
    \/ UpsertCacheGet \/ UpsertCacheExtend
    \/ DeleteRead \/ DeleteFilter \/ DeleteIds \/ DeletePop \/ DeleteCache
    \/ SearchEmbed \/ SearchQuery

SpecThreads == ThreadsInit /\ [][ThreadsNext]_vars

(***************************************************************************)
(* C14.  Backend errors propagate.                                         *)
(***************************************************************************)
ThreadNames == {"u", "d", "s"}

\* The k-th call of thread t failed, the thread left with that very error,
\* and it was the thread's last call.
Propagated(t, k) ==
    /\ k = Len(threads[t].calls)
    /\ threads[t].pc = "raised"
    /\ threads[t].raised = threads[t].calls[k].result

Failed(t, k) == threads[t].calls[k].result # "ok"

\* The delete-by-filter call answered TypeError.
FilterTypeError(t, k) ==
    threads[t].calls[k] = Called("index.delete(filter)", "TypeError")

\* C14: any error raised by the embedder or the vector backend during
\* upsert_documents, search or delete_by_source reaches the caller unchanged,
\* and the operation issues no further call after the failing one.
C14_ErrorsPropagate ==
    threads # Parked =>
        \A t \in ThreadNames : \A k \in DOMAIN threads[t].calls :
            Failed(t, k) => Propagated(t, k)

\* C14 amended: the same for every failing call except a TypeError of the
\* delete-by-filter call.  That one is caught by delete_by_source: it is the
\* operation's first call, the caller never sees it, and the only call that
\* can follow it is one delete by ids, made only when the operation read a
\* non-empty tracked id set.
C14_ErrorsPropagateAmended ==
    threads # Parked =>
        \A t \in ThreadNames : \A k \in DOMAIN threads[t].calls :
            /\ (Failed(t, k) /\ ~FilterTypeError(t, k)) => Propagated(t, k)
            /\ FilterTypeError(t, k) =>
                  /\ t = "d" /\ k = 1
                  /\ Len(threads.d.calls) <= 2
                  /\ Len(threads.d.calls) = 2 =>
                        /\ threads.d.calls[2].call = "index.delete(ids)"
                        /\ threads.d.existing_ids # {}
                  /\ threads.d.raised # "" => Propagated("d", 2)

\* The index upsert failed: upsert_documents left with that error and
\* recorded nothing locally; and a delete by ids failed after the caught
\* TypeError and left with its own error.
C14_Witness ==
    /\ threads # Parked
    /\ threads.u.pc = "raised"
    /\ threads.u.calls = <<Called("embed", "ok"), Called("index.upsert", "ConnectionError")>>
    /\ threads.u.raised = "ConnectionError"
    /\ threads.d.pc = "raised"
    /\ Len(threads.d.calls) = 2
    /\ threads.d.calls[1].result = "TypeError"
    /\ threads.d.raised = "ConnectionError"

(***************************************************************************)
(* C19, C20.  Concurrent upsert_documents and delete_by_source.            *)
(***************************************************************************)
\* Both calls have returned and every call they made was answered, but for
\* the TypeError of a backend that has no delete by filter.
BothReturned ==
    /\ threads # Parked
    /\ threads.u.pc = "returned"
    /\ threads.d.pc = "returned"
    /\ \A t \in {"u", "d"} : \A k \in DOMAIN threads[t].calls :
          Failed(t, k) => (FilterTypeError(t, k) /\ ~filter_delete)

\* The combined state of index, tracked-id map and keyword cache.
Combined(st) == <<st.index, st.svi, st.kc>>

\* The two serial orders of the two calls, from the store they began on.
UpsertThenDelete ==
    LET u == threads.u
        d == threads.d
        first == upsert_documents(threads.st0, u.person_id, u.documents, u.source,
                                  u.extra_metadata).st
    IN  delete_by_source(first, d.person_id, d.source, filter_delete).st

DeleteThenUpsert ==
    LET u == threads.u
        d == threads.d
        first == delete_by_source(threads.st0, d.person_id, d.source, filter_delete).st
    IN  upsert_documents(first, u.person_id, u.documents, u.source, u.extra_metadata).st

\* C19: an upsert_documents and a delete_by_source that ran concurrently on
\* the same (person_id, source) group leave the index, the tracked-id map
\* and the keyword cache as one of the two serial orders of the two calls
\* would have left them.
C19_LastWriteWins ==
    (BothReturned /\ threads.u.person_id = threads.d.person_id
                  /\ threads.u.source = threads.d.source) =>
        Combined(Store) \in {Combined(UpsertThenDelete), Combined(DeleteThenUpsert)}

\* C20: when upsert_documents(p, D, s2) and delete_by_source(p, s1) with
\* s1 # s2 ran concurrently and both returned, every chunk of the upsert is
\* in p's keyword cache.
C20_CacheExclusion ==
    (BothReturned /\ threads.u.person_id = threads.d.person_id
                  /\ threads.u.source # threads.d.source) =>
        \A i \in DOMAIN threads.u.payload :
            /\ threads.u.person_id \in DOMAIN keyword_cache
            /\ \E j \in DOMAIN keyword_cache[threads.u.person_id] :
                  keyword_cache[threads.u.person_id][j] = CacheEntry(threads.u.payload[i])

(***************************************************************************)
(* replace_source_documents step by step, with a concurrent search.        *)
(*                                                                         *)
(* The replacing thread runs the steps of delete_by_source (threads.d) and *)
(* then those of upsert_documents (threads.u); threads.r is its frame in   *)
(* replace_source_documents.  threads.s is another thread in search.       *)
(***************************************************************************)
\* indexed = self.upsert_documents(...) entered without waiting for the
\* delete to return.
ReplaceStartUpsert_early ==
    /\ threads.r.pc = "running"
    /\ threads.d.pc # "start"
    /\ threads.u.pc = "waiting"
    /\ threads' = [threads EXCEPT !.u = [threads.u EXCEPT !.pc = "start"]]
    /\ UNCHANGED <<engineVars, boot, llm, chat>>

\* deleted = self.delete_by_source(...) has returned:
\* indexed = self.upsert_documents(...) is entered.
ReplaceStartUpsert ==
    /\ threads.r.pc = "running"
    /\ threads.d.pc = "returned"
    /\ threads.u.pc = "waiting"
    /\ threads' = [threads EXCEPT !.u = [threads.u EXCEPT !.pc = "start"]]
    /\ UNCHANGED <<engineVars, boot, llm, chat>>

\* return deleted, indexed; or the exception of either step leaves
\* replace_source_documents, which has no try.
ReplaceFinish ==
    LET r == threads.r
        d == threads.d
        u == threads.u
    IN  /\ r.pc = "running"
        /\ \/ /\ d.pc = "raised"
              /\ threads' = [threads EXCEPT !.r = [r EXCEPT !.pc = "raised",
                                                            !.raised = d.raised]]
           \/ /\ u.pc = "raised"
              /\ threads' = [threads EXCEPT !.r = [r EXCEPT !.pc = "raised",
                                                            !.raised = u.raised]]
           \/ /\ u.pc = "returned"
              /\ threads' = [threads EXCEPT !.r = [r EXCEPT !.pc = "returned",
                                                            !.ret = <<d.ret, u.ret>>]]
        /\ UNCHANGED <<engineVars, boot, llm, chat>>

\* collect_knowledge_inputs: the stripped inline text when it is not blank,
\* then the content of every knowledge file.
collect_knowledge_inputs(knowledge_text, knowledge_files) ==
    (IF knowledge_text # << >> /\ Strip(knowledge_text) # << >>
     THEN <<Strip(knowledge_text)>> ELSE << >>)
    \o knowledge_files

\* RetrievalSourceReplaceRequest.validate_content_present: a request with
\* neither a non-blank knowledge_text nor a knowledge file is refused.
validate_content_present(knowledge_text, knowledge_files) ==
    ~(~(knowledge_text # << >> /\ Strip(knowledge_text) # << >>) /\ knowledge_files = << >>)

\* How replace_source_documents is entered: by a direct call with a document
\* list, or by POST /v1/retrieval/source/replace with an inline text (<< >>
\* for none) and the contents of the knowledge files (none, one
\* whitespace-only file, one file reading "b").
ReplaceEntries ==
    [via : {"call"}, documents : {<< >>, <<dEmpty, dBlank>>, <<dB>>, <<dBAb>>}]
        \cup [via : {"endpoint"}, knowledge_text : {dEmpty, dBlank, dAb},
              knowledge_files : {<< >>, <<dBlank>>, <<dB>>}]

\* The documents an entry hands to replace_source_documents.
EntryDocuments(entry) ==
    IF entry.via = "call" THEN entry.documents
    ELSE collect_knowledge_inputs(entry.knowledge_text, entry.knowledge_files)

\* The entry reaches replace_source_documents.
EntryAccepted(entry) ==
    entry.via = "call"
        \/ validate_content_present(entry.knowledge_text, entry.knowledge_files)

\* The store holds what upsert_documents("p1", ["Ab"], "s1"), with or without
\* extra_metadata, and, possibly, upsert_documents("p1", ["b"], "s2") left;
\* one thread replaces (p1, s1), another searches p1 for "b".
ReplaceInit ==
    /\ \E other \in BOOLEAN, extra_metadata \in Extras :
         LET fresh == [index |-> {}, svi |-> [k \in {} |-> {}],
                       kc |-> [p \in {} |-> << >>], next_id |-> 1]
             st1 == upsert_documents(fresh, "p1", <<dAb>>, "s1", extra_metadata).st
             st0 == IF other THEN upsert_documents(st1, "p1", <<dB>>, "s2", eNone).st
                    ELSE st1
         IN  /\ index = st0.index
             /\ source_vector_ids = st0.svi
             /\ keyword_cache = st0.kc
             /\ next_id = st0.next_id
             /\ \E entry \in ReplaceEntries, top_k \in TopKs :
                  threads =
                    [st0 |-> st0,
                     r |-> [pc |-> IF EntryAccepted(entry) THEN "running" ELSE "refused",
                            entry |-> entry, ret |-> <<0, 0>>, raised |-> ""],
                     u |-> [pc |-> "waiting", person_id |-> "p1", source |-> "s1",
                            documents |-> EntryDocuments(entry), extra_metadata |-> eNone,
                            payload |-> << >>, set_in_map |-> FALSE,
                            list_in_map |-> FALSE, calls |-> << >>, ret |-> 0,
                            raised |-> ""],
                     d |-> [pc |-> IF EntryAccepted(entry) THEN "start" ELSE "waiting",
                            person_id |-> "p1", source |-> "s1",
                            existing_ids |-> {}, calls |-> << >>, ret |-> 0,
                            raised |-> ""],
                     s |-> [pc |-> "start", person_id |-> "p1", query |-> <<"b">>,
                            top_k |-> top_k, min_score |-> Frac(0, 1),
                            calls |-> << >>, ret |-> << >>, raised |-> ""]]
    /\ filter_delete \in BOOLEAN
    /\ last = [op |-> "idle"]
    /\ boot = Parked
    /\ llm = Parked
    /\ chat = Parked

ReplaceNext ==
    \/ DeleteRead \/ DeleteFilter \/ DeleteIds \/ DeletePop \/ DeleteCache
    \/ ReplaceStartUpsert
    \/ UpsertEmbed \/ UpsertIndex \/ UpsertTrackGet \/ UpsertTrackUpdate
    \/ UpsertCacheGet \/ UpsertCacheExtend
    \/ ReplaceFinish
    \/ SearchEmbed \/ SearchQuery

SpecReplace == ReplaceInit /\ [][ReplaceNext]_vars

(***************************************************************************)
(* C21.  replace_source_documents: delete, then upsert, not atomically.    *)
(***************************************************************************)
InReplace == threads # Parked /\ "r" \in DOMAIN threads

\* The group is empty in the index, the tracked-id map and the keyword cache.
GroupAbsent(person_id, source) ==
    /\ IndexGroup(person_id, source) = {}
    /\ TrackedGroup(person_id, source) = {}
    /\ CacheGroup(person_id, source) = {}

\* C21: replace_source_documents runs delete_by_source to completion before
\* the first step of upsert_documents (while the delete has not returned the
\* upsert has not been entered and has made no call), and it returns the
\* pair (count returned by the delete, count returned by the upsert).
C21_DeleteThenUpsert ==
    InReplace =>
        /\ threads.d.pc # "returned" =>
              /\ threads.u.pc = "waiting"
              /\ threads.u.calls = << >>
        /\ threads.r.pc = "returned" =>
              /\ threads.d.pc = "returned"
              /\ threads.u.pc = "returned"
              /\ threads.r.ret = <<threads.d.ret, threads.u.ret>>

\* The intermediate state: the delete has returned, the upsert of a document
\* that yields a chunk has not yet written, the group (p1, s1), which held a
\* chunk before the call, is empty everywhere, and the concurrent search for
\* "b", which matched the old chunk and will match the new one, has
\* returned nothing.
C21_Witness ==
    /\ InReplace
    /\ threads.r.pc = "running"
    /\ threads.d.pc = "returned"
    /\ threads.u.pc \in {"waiting", "start", "index.upsert"}
    /\ threads.u.documents = <<dB>>
    /\ GroupIds(threads.st0, "p1", "s1") # {}
    /\ GroupAbsent("p1", "s1")
    /\ DOMAIN threads.st0.svi = {<<"p1", "s1">>}
    /\ threads.s.pc = "returned"
    /\ threads.s.ret = << >>

(***************************************************************************)
(* C22.  The delete-by-ids fallback.                                       *)
(***************************************************************************)
\* The ids tracked for the group before the call.
TrackedBefore ==
    IF <<last.person_id, last.source>> \in DOMAIN last.before.svi
    THEN last.before.svi[<<last.person_id, last.source>>]
    ELSE {}

\* The ids of the index entries, before the call, that calls for the group made.
UpsertedBefore ==
    { e.id : e \in { x \in last.before.index :
                       x.id.person_id = last.person_id /\ x.id.source = last.source } }

\* C22: when the backend rejects delete by filter, delete_by_source deletes
\* by the ids tracked at upsert time for (person_id, source): the ids it
\* sends are exactly the tracked ids of that group, which are the ids of the
\* chunks upserted for that group and of no other, the second backend call
\* is made only when there are such ids, and after the call no chunk
\* upserted for that group remains in the index.
C22_FallbackByIds ==
    (last.op = "delete" /\ ~filter_delete) =>
        /\ last.sent_ids = TrackedBefore
        /\ last.sent_ids = UpsertedBefore
        /\ last.calls = IF last.sent_ids = {}
                        THEN <<"index.delete(filter)">>
                        ELSE <<"index.delete(filter)", "index.delete(ids)">>
        /\ \A e \in index : ~(e.id.person_id = last.person_id /\ e.id.source = last.source)
        /\ index = { e \in last.before.index : e.id \notin last.sent_ids }

\* The fallback removed a chunk of the group while another group of the same
\* person kept its chunk.
C22_Witness ==
    /\ last.op = "delete"
    /\ ~filter_delete
    /\ last.sent_ids # {}
    /\ \E e \in index : e.id.person_id = last.person_id /\ e.id.source # last.source

(***************************************************************************)
(* C23.  chunk_index.                                                      *)
(***************************************************************************)
\* The number of chunks the documents before the j-th contribute.
RECURSIVE ChunksBefore(_, _)
ChunksBefore(documents, j) ==
    IF j <= 1 THEN 0
    ELSE ChunksBefore(documents, j - 1) + Len(DocumentChunks(documents[j - 1]))

\* The document the g-th chunk of the call was cut from.
DocumentOf(documents, g) ==
    CHOOSE j \in DOMAIN documents :
        /\ ChunksBefore(documents, j) < g
        /\ g <= ChunksBefore(documents, j) + Len(DocumentChunks(documents[j]))

\* The 1-based position of the g-th chunk of the call within the chunk
\* sequence of its own document.
PositionInDocument(documents, g) ==
    g - ChunksBefore(documents, DocumentOf(documents, g))

\* C23: each chunk an upsert_documents call stores (extra_metadata carrying
\* no chunk_index of its own) has as chunk_index its 1-based position within
\* the chunk sequence of the document it was cut from: numbering restarts at
\* 1 for each document and has no gap within a document.
C23_ChunkIndexPerDocument ==
    (last.op = "upsert" /\ last.extra_metadata = eNone) =>
        \A e \in index :
            e.id \in last.ids =>
                e.metadata.chunk_index
                    = PositionInDocument(last.documents, PositionInCall(e.id))

(***************************************************************************)
(* C24.  Keyword fallback scoring.                                         *)
(***************************************************************************)
\* The person's cached list, and the number of query tokens an entry's
\* lowercased text contains.
CacheList == IF last.person_id \in DOMAIN keyword_cache
             THEN keyword_cache[last.person_id] ELSE << >>

TokenHits(item) ==
    Cardinality({ t \in Tokens(last.query) : Contains(t, Lower(item.text)) })

\* The cache positions of the entries the result holds.
ReturnedAt == { k \in DOMAIN CacheList : CacheList[k].id \in ReturnedIds }

\* C24: when search takes the keyword fallback with a query of at least one
\* token, every match is a cached chunk of that person whose lowercased text
\* contains at least one token, scored (tokens contained) / (tokens in the
\* query); the matches are in non-increasing score order, distinct, at most
\* top_k and as many as top_k allows; and no cached chunk left out scores
\* strictly higher than a returned one.
C24_KeywordScoring ==
    (IsSearch /\ ReadCache /\ Tokens(last.query) # {}) =>
        /\ Len(last.ret) = Min(last.top_k,
                               Cardinality({ k \in DOMAIN CacheList :
                                               TokenHits(CacheList[k]) > 0 }))
        /\ \A i \in DOMAIN last.ret :
              /\ last.ret[i].id.person_id = last.person_id
              /\ \E k \in DOMAIN CacheList :
                    /\ CacheList[k].id = last.ret[i].id
                    /\ CacheList[k].text = last.ret[i].text
                    /\ TokenHits(CacheList[k]) > 0
                    /\ last.ret[i].score.n * Cardinality(Tokens(last.query))
                          = TokenHits(CacheList[k]) * last.ret[i].score.d
        /\ \A i, j \in DOMAIN last.ret :
              i < j => /\ FLeq(last.ret[j].score, last.ret[i].score)
                       /\ last.ret[i].id # last.ret[j].id
        /\ \A k \in (DOMAIN CacheList) \ ReturnedAt : \A i \in DOMAIN last.ret :
              TokenHits(CacheList[k]) * last.ret[i].score.d
                  <= last.ret[i].score.n * Cardinality(Tokens(last.query))

\* Two cached chunks match a two-token query with different scores, top_k is
\* 1: the fallback returns the higher-scoring one, which is second in the
\* cache, and leaves the other out.
C24_Witness ==
    /\ IsSearch
    /\ ReadCache
    /\ Cardinality(Tokens(last.query)) = 2
    /\ last.top_k = 1
    /\ Len(last.ret) = 1
    /\ last.ret[1].score = Frac(1, 1)
    /\ \E k \in (DOMAIN CacheList) \ ReturnedAt :
          /\ TokenHits(CacheList[k]) = 1
          /\ \E m \in ReturnedAt : k < m

(***************************************************************************)
(* Constructions against one backend, step by step: two constructors (two  *)
(* processes, or two threads) run VectorStoreService.__init__, each as     *)
(* often as it likes.  boot.index_exists is the backend's side,            *)
(* boot.creates the create_index calls it received, each with whether the  *)
(* index existed when the call arrived; boot.c holds each constructor's    *)
(* position, its environment and what its list_indexes call reported.      *)
(***************************************************************************)
Constructors == {"a", "b"}

\* The environments a constructor runs in: everything in place but, possibly,
\* the API key or a loadable embedding model.
ConstructorEnvs ==
    { e \in BootEnvs : e.index_name /\ e.environment /\ e.sdk /\ e.packages }

\* The settings checks and the pinecone import, up to the call of _ensure_index.
ConstructStart(c) ==
    LET me == boot.c[c]
        early == __init__(me.env, TRUE)
    IN  /\ me.pc = "start"
        /\ boot' = [boot EXCEPT !.c[c] =
              IF early.calls = << >>
              THEN [me EXCEPT !.pc = "raised", !.raised = early.raised]
              ELSE [me EXCEPT !.pc = "list_indexes"]]
        /\ UNCHANGED <<engineVars, llm, chat, threads>>

\* existing_indexes = set(self._client.list_indexes().names()); return when
\* the name is there.
ListIndexes(c) ==
    LET me == boot.c[c] IN
    /\ me.pc = "list_indexes"
    /\ boot' = [boot EXCEPT !.c[c] =
          [me EXCEPT !.pc = IF boot.index_exists THEN "load" ELSE "create_index"]]
    /\ UNCHANGED <<engineVars, llm, chat, threads>>

\* self._client.create_index(...): the backend creates the index, or rejects
\* the call when an index of that name exists; the rejection is not caught.
CreateIndex(c) ==
    LET me == boot.c[c] IN
    /\ me.pc = "create_index"
    /\ boot' = [boot EXCEPT
          !.creates = Append(@, [by |-> c, existed |-> boot.index_exists]),
          !.index_exists = TRUE,
          !.c[c] = IF boot.index_exists
                   THEN [me EXCEPT !.pc = "raised", !.raised = "AlreadyExists"]
                   ELSE [me EXCEPT !.pc = "load"]]
    /\ UNCHANGED <<engineVars, llm, chat, threads>>

\* The rest of __init__: the index handle, the lazy imports, the embedder.
LoadEmbedder(c) ==
    LET me == boot.c[c]
        whole == __init__(me.env, TRUE)
    IN  /\ me.pc = "load"
        /\ boot' = [boot EXCEPT !.c[c] =
              IF whole.raised = ""
              THEN [me EXCEPT !.pc = "constructed"]
              ELSE [me EXCEPT !.pc = "raised", !.raised = whole.raised]]
        /\ UNCHANGED <<engineVars, llm, chat, threads>>

\* The constructor's process is started again, in any environment.
ConstructAgain(c) ==
    /\ boot.c[c].pc \in {"constructed", "raised"}
    /\ \E env \in ConstructorEnvs :
          boot' = [boot EXCEPT !.c[c] = [pc |-> "start", env |-> env, raised |-> ""]]
    /\ UNCHANGED <<engineVars, llm, chat, threads>>

EnsureInit ==
    /\ \E index_exists \in BOOLEAN :
          boot \in [index_exists : {index_exists}, creates : {<< >>},
                    c : [Constructors -> [pc : {"start"}, env : ConstructorEnvs,
                                          raised : {""}]]]
    /\ index = {}
    /\ source_vector_ids = [k \in {} |-> {}]
    /\ keyword_cache = [p \in {} |-> << >>]
    /\ next_id = 1
    /\ filter_delete = TRUE
    /\ last = [op |-> "idle"]
    /\ llm = Parked
    /\ chat = Parked
    /\ threads = Parked

EnsureNext ==
    \E c \in Constructors :
        \/ ConstructStart(c) \/ ListIndexes(c) \/ CreateIndex(c)
        \/ LoadEmbedder(c) \/ ConstructAgain(c)

SpecEnsure == EnsureInit /\ [][EnsureNext]_vars

(***************************************************************************)
(* C25.  Index creation is idempotent.                                     *)
(***************************************************************************)
InEnsure == boot # Parked /\ "creates" \in DOMAIN boot

\* C25: over any number of constructions against one backend, overlapping
\* ones included, create_index is never issued for an index that already
\* exists, and it is issued at most once in total.
C25_CreateOnce ==
    InEnsure =>
        /\ \A k \in DOMAIN boot.creates : ~boot.creates[k].existed
        /\ Len(boot.creates) <= 1

\* The same for constructions that do not overlap: the calls of one
\* constructor alone.
C25_CreateOnceAlone ==
    (InEnsure /\ \A k \in DOMAIN boot.creates : boot.creates[k].by = "a") =>
        /\ \A k \in DOMAIN boot.creates : ~boot.creates[k].existed
        /\ Len(boot.creates) <= 1

(***************************************************************************)
(* C26, C27.  What upsert_documents and delete_by_source leave alone.      *)
(***************************************************************************)
\* s is a prefix of t.
IsPrefix(s, t) == Len(s) <= Len(t) /\ SubSeq(t, 1, Len(s)) = s

\* Everything the store `before` held is in the store `after`, unchanged:
\* every index entry, every tracked id under its key, every cache entry in
\* its place in its person's list.
Keeps(before, after) ==
    /\ before.index \subseteq after.index
    /\ \A k \in DOMAIN before.svi :
          k \in DOMAIN after.svi /\ before.svi[k] \subseteq after.svi[k]
    /\ \A p \in DOMAIN before.kc :
          p \in DOMAIN after.kc /\ IsPrefix(before.kc[p], after.kc[p])

\* The ids a store holds in its index, in its tracked-id map, in its cache.
IndexIds(st) == { e.id : e \in st.index }
TrackedIds(st) == UNION { st.svi[k] : k \in DOMAIN st.svi }
CacheIds(st) == UNION { { st.kc[p][i].id : i \in DOMAIN st.kc[p] } : p \in DOMAIN st.kc }

\* upsert_documents only adds, and its new chunks join the group.
UpsertOnlyAdds ==
    last.op = "upsert" =>
        /\ Keeps(last.before, Store)
        /\ last.ids \subseteq IndexIds(Store)
        /\ last.ids \subseteq TrackedGroup(last.person_id, last.source)
        /\ last.ids \subseteq CacheIds(Store)

\* A step that removes a chunk from the index, the map or the cache is a
\* delete_by_source or a replace_source_documents.
OnlyDeleteRemoves ==
    (\/ ~(IndexIds(Store) \subseteq { e.id : e \in index' })
     \/ ~(TrackedIds(Store) \subseteq UNION { source_vector_ids'[k] :
                                               k \in DOMAIN source_vector_ids' })
     \/ ~(CacheIds(Store) \subseteq UNION { { keyword_cache'[p][i].id :
                                                 i \in DOMAIN keyword_cache'[p] } :
                                             p \in DOMAIN keyword_cache' }))
        => last'.op \in {"delete", "replace"}

\* The ids delete_by_source or the delete step of replace_source_documents
\* took out of the index, the map and the cache.
AfterDelete == IF last.op = "replace" THEN last.mid ELSE Store
GoneFromIndex == IndexIds(last.before) \ IndexIds(AfterDelete)
GoneFromTracked == TrackedIds(last.before) \ TrackedIds(AfterDelete)
GoneFromCache == CacheIds(last.before) \ CacheIds(AfterDelete)

\* A delete removes the whole group and nothing else: what it takes out of
\* each of the three stores is exactly what that store held of the group.
RemovesWholeGroup ==
    last.op \in {"delete", "replace"} =>
        LET group == GroupIds(last.before, last.person_id, last.source) IN
        /\ GoneFromIndex = group \cap IndexIds(last.before)
        /\ GoneFromTracked = group \cap TrackedIds(last.before)
        /\ GoneFromCache = group \cap CacheIds(last.before)

\* C26: upsert_documents only adds: it never changes or removes an index
\* entry, a cache entry or a tracked id that existed before the call, so a
\* second upsert under the same (person_id, source) leaves the group holding
\* the chunks of both calls; the only operations that remove chunks are
\* delete_by_source and replace_source_documents, and they remove the whole
\* group.
C26_UpsertOnlyAdds ==
    /\ [](UpsertOnlyAdds /\ RemovesWholeGroup)
    /\ [][OnlyDeleteRemoves]_vars

\* What a store holds for a group: the index entries whose metadata names it,
\* the ids tracked under its key, the entries of the person's cached list
\* whose source field is the group's source.
IndexEntriesOf(st, person_id, source) ==
    { e \in st.index : e.metadata.person_id = person_id /\ e.metadata.source = source }

TrackedIdsOf(st, person_id, source) ==
    IF <<person_id, source>> \in DOMAIN st.svi THEN st.svi[<<person_id, source>>] ELSE {}

CacheEntriesOf(st, person_id, source) ==
    IF person_id \in DOMAIN st.kc
    THEN SelectSeq(st.kc[person_id], LAMBDA item : item.source = source)
    ELSE << >>

\* Every person and source named by a call or by a stored chunk of `st`.
PersonsOf(st) == Persons \cup { e.metadata.person_id : e \in st.index } \cup DOMAIN st.kc
SourcesOf(st) == Sources \cup { e.metadata.source : e \in st.index }

\* C27: delete_by_source(p, s) touches only its own group: for every other
\* group (p', s') the index entries, the tracked ids and the cache entries of
\* that group are the same after the call as before, for another source of
\* the same person and for the same source label of another person alike.
C27_DeleteOwnGroupOnly ==
    last.op = "delete" =>
        \A p \in PersonsOf(last.before), s \in SourcesOf(last.before) :
            <<p, s>> # <<last.person_id, last.source>> =>
                /\ IndexEntriesOf(Store, p, s) = IndexEntriesOf(last.before, p, s)
                /\ TrackedIdsOf(Store, p, s) = TrackedIdsOf(last.before, p, s)
                /\ CacheEntriesOf(Store, p, s) = CacheEntriesOf(last.before, p, s)

(***************************************************************************)
(* C28.  A failed backend upsert records nothing locally.                  *)
(***************************************************************************)
\* upsert_documents left with the exception of its embed or index.upsert call.
UpsertRaised ==
    /\ threads # Parked
    /\ threads.u.pc = "raised"

\* The ids of the chunks that were written to the vector index: those the
\* store began with and those of a payload whose index.upsert was answered.
WrittenIds ==
    IndexIds(threads.st0)
        \cup (IF \E k \in DOMAIN threads.u.calls :
                    threads.u.calls[k] = Called("index.upsert", "ok")
              THEN { threads.u.payload[i].id : i \in DOMAIN threads.u.payload }
              ELSE {})

\* C28: when the backend upsert inside upsert_documents raises, the call has
\* touched neither the tracked-id map nor the keyword cache (with no other
\* call under way they are exactly as before the call); no chunk is recorded
\* locally unless its backend upsert succeeded, so neither the cache nor a
\* search that fell back to it holds a chunk that was not written to the
\* vector index.
C28_FailedUpsertRecordsNothing ==
    threads # Parked =>
        /\ UpsertRaised =>
              /\ ~threads.u.set_in_map
              /\ ~threads.u.list_in_map
              /\ threads.d.pc = "start" =>
                    /\ source_vector_ids = threads.st0.svi
                    /\ keyword_cache = threads.st0.kc
                    /\ index = threads.st0.index
        /\ CacheIds(Store) \subseteq WrittenIds
        /\ TrackedIds(Store) \subseteq WrittenIds
        /\ \A i \in DOMAIN threads.s.ret : threads.s.ret[i].id \in WrittenIds

\* index.upsert raised on a store that already held a chunk: nothing was
\* recorded, and the search, answered nothing by the backend, fell back to
\* the cache and returned the old chunk only.
C28_Witness ==
    /\ UpsertRaised
    /\ Len(threads.u.calls) = 2
    /\ threads.u.calls[2].call = "index.upsert"
    /\ threads.u.payload # << >>
    /\ threads.d.pc = "start"
    /\ threads.st0.index # {}
    /\ keyword_cache = threads.st0.kc
    /\ threads.s.pc = "returned"
    /\ Len(threads.s.ret) = 1
    /\ threads.s.ret[1].retrieval_mode = "keyword_fallback"

(***************************************************************************)
(* C29.  replace_source_documents has no rollback.                         *)
(***************************************************************************)
\* The ids of the chunks the group (person_id, source) held in store st: the
\* ids tracked for the group and the ids of the chunks its calls created.
HeldBy(st, person_id, source) ==
    (IF <<person_id, source>> \in DOMAIN st.svi THEN st.svi[<<person_id, source>>] ELSE {})
        \cup GroupIds(st, person_id, source)

\* The ids a store holds in the index, the tracked-id map or a keyword cache.
AllIds(st) == IndexIds(st) \cup TrackedIds(st) \cup CacheIds(st)

\* The replace call was handed documents that split into no chunk.
ZeroChunkReplace == InReplace /\ _split_documents(threads.u.documents) = << >>

\* No chunk the group held before the call is left once the delete step
\* has returned.
OldChunksGone ==
    (InReplace /\ threads.d.pc = "returned") =>
        HeldBy(threads.st0, "p1", "s1") \cap AllIds(Store) = {}

\* A replace whose documents yield no chunk returns (deleted_count, 0) and
\* leaves the group absent.
ZeroChunkLeavesGroupAbsent ==
    (ZeroChunkReplace /\ threads.r.pc = "returned") =>
        /\ threads.r.ret = <<Cardinality(HeldBy(threads.st0, "p1", "s1")), 0>>
        /\ GroupAbsent("p1", "s1")
        /\ HeldBy(Store, "p1", "s1") = {}

\* No step of the upsert, and no exception, puts back a chunk the delete
\* step removed: what the group held before the call never reappears.
NoRollbackStep ==
    InReplace =>
        (HeldBy(threads.st0, "p1", "s1") \cap AllIds(Store))'
            \subseteq HeldBy(threads.st0, "p1", "s1") \cap AllIds(Store)

\* C29: once the delete step of replace_source_documents has returned, no
\* chunk the group held before the call remains in the index, the tracked-id
\* map or the keyword cache, whether the upsert step then succeeds, raises or
\* yields no chunk, and nothing is ever restored; a replace with empty or
\* whitespace-only documents returns (deleted_count, 0) and leaves the group
\* absent.
C29_NoRollback ==
    [](OldChunksGone /\ ZeroChunkLeavesGroupAbsent) /\ [][NoRollbackStep]_vars

\* The endpoint reaches the zero-chunk case: POST /v1/retrieval/source/replace
\* whose only content is a whitespace-only knowledge file has returned
\* deleted_chunks = 1 and indexed_chunks = 0, and the group, which held a
\* chunk, is absent.
C29_EndpointReachesZeroChunks ==
    /\ ZeroChunkReplace
    /\ threads.r.entry.via = "endpoint"
    /\ threads.r.pc = "returned"
    /\ threads.r.ret = <<1, 0>>
    /\ GroupIds(threads.st0, "p1", "s1") # {}
    /\ GroupAbsent("p1", "s1")

\* The upsert step raised after the delete step had removed the group, and
\* the group, which held a chunk, stays absent.
C29_RaisedAfterDelete ==
    /\ InReplace
    /\ threads.r.pc = "raised"
    /\ threads.d.pc = "returned"
    /\ threads.u.pc = "raised"
    /\ GroupIds(threads.st0, "p1", "s1") # {}
    /\ GroupAbsent("p1", "s1")

(***************************************************************************)
(* The in-memory conversation store (conversation_service.py).  Its two    *)
(* module-level dicts and the clock are fields of chat; every call is one  *)
(* step, since the functions are synchronous and the chat handler calls    *)
(* them without an await in between.                                       *)
(***************************************************************************)
\* Calls are counted by the clock _utc_now reads; the model stops at MaxNow.
MaxNow == 4

\* The conversation ids a caller passes: none ("", as None is falsy too), an
\* id of its own, or an id str(uuid4()) produces.
Uuids == {"u1", "u2"}
ConversationIds == {"", "c1"} \cup Uuids

ConversationIdle == [op |-> "idle"]

_CONVERSATIONS == chat.conversations
_MESSAGES_BY_CONVERSATION == chat.messages

\* dict.setdefault(key, default) on a function.
SetDefault(f, key, default) ==
    IF key \in DOMAIN f THEN f
    ELSE [k \in DOMAIN f \cup {key} |-> IF k = key THEN default ELSE f[k]]

\* dict[key] = value on a function.
SetItem(f, key, value) ==
    [k \in DOMAIN f \cup {key} |-> IF k = key THEN value ELSE f[k]]

\* ConversationResponse(id=..., user_id=..., person_id=..., created_at=now,
\* updated_at=now); the constant fields are left out.
NewConversation(id, user_id, person_id, now) ==
    [id |-> id, user_id |-> user_id, person_id |-> person_id,
     created_at |-> now, updated_at |-> now]

\* ensure_conversation without the person check: an existing conversation is
\* created again for the person of the call.
ensure_conversation_rebinding(conversations, messages, person_id, conversation_id, user_id, now, new_id) ==
    LET id == IF conversation_id # "" THEN conversation_id ELSE new_id
        created == NewConversation(id, user_id, person_id, now)
    IN  [conversations |-> SetItem(conversations, id, created),
         messages |-> IF conversation_id # "" THEN SetDefault(messages, id, << >>)
                      ELSE SetItem(messages, id, << >>),
         ret |-> created, raised |-> ""]

\* ensure_conversation(person_id, conversation_id, user_id); now is what
\* _utc_now() answers and new_id what str(uuid4()) answers.
ensure_conversation(conversations, messages, person_id, conversation_id, user_id, now, new_id) ==
    IF conversation_id # ""
    THEN IF conversation_id \in DOMAIN conversations
         THEN IF conversations[conversation_id].person_id # person_id
              THEN [conversations |-> conversations, messages |-> messages,
                    ret |-> ConversationIdle, raised |-> "ValidationError"]
              ELSE [conversations |-> conversations, messages |-> messages,
                    ret |-> conversations[conversation_id], raised |-> ""]
         ELSE LET created == NewConversation(conversation_id, user_id, person_id, now)
              IN  [conversations |-> SetItem(conversations, conversation_id, created),
                   messages |-> SetDefault(messages, conversation_id, << >>),
                   ret |-> created, raised |-> ""]
    ELSE LET created == NewConversation(new_id, user_id, person_id, now)
         IN  [conversations |-> SetItem(conversations, new_id, created),
              messages |-> SetItem(messages, new_id, << >>),
              ret |-> created, raised |-> ""]

\* add_message(conversation_id, role, content): the message is appended to
\* the conversation's list, created when missing, and a stored conversation
\* is rebuilt from its own fields with updated_at = now.
add_message(conversations, messages, conversation_id, role, content, now) ==
    LET message == [conversation_id |-> conversation_id, role |-> role,
                    content |-> content, created_at |-> now]
        lists == SetDefault(messages, conversation_id, << >>)
    IN  [conversations |->
             IF conversation_id \in DOMAIN conversations
             THEN [conversations EXCEPT ![conversation_id].updated_at = now]
             ELSE conversations,
         messages |-> [lists EXCEPT ![conversation_id] = Append(@, message)],
         ret |-> message, raised |-> ""]

\* What str(uuid4()) can answer: an id no conversation and no list has.
FreshUuids == Uuids \ (DOMAIN _CONVERSATIONS \cup DOMAIN _MESSAGES_BY_CONVERSATION)

\* A call of ensure_conversation.
EnsureConversation ==
    /\ chat.now < MaxNow
    /\ \E person_id \in Persons, conversation_id \in ConversationIds, new_id \in Uuids :
         /\ IF conversation_id = "" THEN new_id \in FreshUuids
            ELSE new_id = CHOOSE u \in Uuids : TRUE
         /\ LET r == ensure_conversation(_CONVERSATIONS, _MESSAGES_BY_CONVERSATION,
                                         person_id, conversation_id, "anonymous",
                                         chat.now, new_id)
            IN  chat' = [conversations |-> r.conversations, messages |-> r.messages,
                         now |-> chat.now + 1,
                         call |-> [op |-> "ensure_conversation", person_id |-> person_id,
                                   conversation_id |-> conversation_id,
                                   raised |-> r.raised, ret |-> r.ret,
                                   conversations |-> _CONVERSATIONS,
                                   messages |-> _MESSAGES_BY_CONVERSATION]]
    /\ UNCHANGED <<engineVars, last, boot, llm, threads>>

\* A call of add_message, for a conversation id of any kind.
AddMessage ==
    /\ chat.now < MaxNow
    /\ \E conversation_id \in ConversationIds \ {""}, role \in {"user", "assistant"} :
         LET r == add_message(_CONVERSATIONS, _MESSAGES_BY_CONVERSATION,
                              conversation_id, role, "m", chat.now)
         IN  chat' = [conversations |-> r.conversations, messages |-> r.messages,
                      now |-> chat.now + 1,
                      call |-> [op |-> "add_message", person_id |-> "",
                                conversation_id |-> conversation_id,
                                raised |-> r.raised, ret |-> r.ret,
                                conversations |-> _CONVERSATIONS,
                                messages |-> _MESSAGES_BY_CONVERSATION]]
    /\ UNCHANGED <<engineVars, last, boot, llm, threads>>

\* The end of the chat handler (main.py:351-371): ensure_conversation for the
\* request, then the user message and the assistant message; the
\* ValidationError of ensure_conversation leaves the handler.
ChatPersist ==
    /\ chat.now + 2 < MaxNow
    /\ \E person_id \in Persons, conversation_id \in ConversationIds, new_id \in Uuids :
         /\ IF conversation_id = "" THEN new_id \in FreshUuids
            ELSE new_id = CHOOSE u \in Uuids : TRUE
         /\ LET e == ensure_conversation(_CONVERSATIONS, _MESSAGES_BY_CONVERSATION,
                                         person_id, conversation_id, "anonymous",
                                         chat.now, new_id)
                m1 == add_message(e.conversations, e.messages, e.ret.id,
                                  "user", "m", chat.now + 1)
                m2 == add_message(m1.conversations, m1.messages, e.ret.id,
                                  "assistant", "m", chat.now + 2)
                r == IF e.raised # "" THEN e ELSE m2
            IN  chat' = [conversations |-> r.conversations, messages |-> r.messages,
                         now |-> IF e.raised # "" THEN chat.now + 1 ELSE chat.now + 3,
                         call |-> [op |-> "chat", person_id |-> person_id,
                                   conversation_id |-> conversation_id,
                                   raised |-> r.raised, ret |-> r.ret,
                                   conversations |-> _CONVERSATIONS,
                                   messages |-> _MESSAGES_BY_CONVERSATION]]
    /\ UNCHANGED <<engineVars, last, boot, llm, threads>>

\* The process starts with both dicts empty.
ConversationInit ==
    /\ chat = [conversations |-> [k \in {} |-> ConversationIdle],
               messages |-> [k \in {} |-> << >>],
               now |-> 0,
               call |-> ConversationIdle]
    /\ index = {}
    /\ source_vector_ids = [k \in {} |-> {}]
    /\ keyword_cache = [p \in {} |-> << >>]
    /\ next_id = 1
    /\ filter_delete = TRUE
    /\ last = [op |-> "idle"]
    /\ boot = Parked
    /\ llm = Parked
    /\ threads = Parked

ConversationNext == EnsureConversation \/ AddMessage \/ ChatPersist

SpecConversation == ConversationInit /\ [][ConversationNext]_vars

(***************************************************************************)
(* C30.  A conversation stays bound to its person.                         *)
(***************************************************************************)
InConversation == chat # Parked /\ "conversations" \in DOMAIN chat

\* A step keeps every stored conversation, with the person it had.
PersonBindingKept ==
    InConversation =>
        \A id \in DOMAIN _CONVERSATIONS :
            /\ id \in DOMAIN _CONVERSATIONS'
            /\ _CONVERSATIONS'[id].person_id = _CONVERSATIONS[id].person_id

\* The call named a stored conversation and another person than its own.
OtherPersonsConversation ==
    /\ chat.call.op \in {"ensure_conversation", "chat"}
    /\ chat.call.conversation_id \in DOMAIN chat.call.conversations
    /\ chat.call.conversations[chat.call.conversation_id].person_id # chat.call.person_id

\* Such a call raises ValidationError and leaves both dicts as they were;
\* and ValidationError is raised by such a call only.
RefusalLeavesStores ==
    InConversation =>
        /\ OtherPersonsConversation =>
              /\ chat.call.raised = "ValidationError"
              /\ _CONVERSATIONS = chat.call.conversations
              /\ _MESSAGES_BY_CONVERSATION = chat.call.messages
        /\ (chat.call.op # "idle" /\ chat.call.raised # "") => OtherPersonsConversation

\* C30: over any sequence of ensure_conversation and add_message calls (and
\* of chat requests, which make them) the person_id stored for a conversation
\* id never changes, and ensure_conversation with the id of a stored
\* conversation and a different person_id raises ValidationError and leaves
\* the conversation store and the message store unchanged.
C30_ConversationBoundToPerson ==
    []RefusalLeavesStores /\ [][PersonBindingKept]_vars

\* ensure_conversation was refused for a conversation that has been created
\* for the other person and already holds a message.
C30_Witness ==
    /\ InConversation
    /\ chat.call.op = "ensure_conversation"
    /\ OtherPersonsConversation
    /\ chat.call.raised = "ValidationError"
    /\ _MESSAGES_BY_CONVERSATION[chat.call.conversation_id] # << >>
    /\ _CONVERSATIONS[chat.call.conversation_id].updated_at
           > _CONVERSATIONS[chat.call.conversation_id].created_at

====
